---- MODULE Spec2Model ----
(***************************************************************************)
(* Verification model of the Scientific Loop Engine:                       *)
(*   - the Hypothesis Store and its confidence calculus                    *)
(*     (backend/memory/hypothesis_store.py),                               *)
(*   - the LangGraph Supervisor (backend/agents/supervisor.py),            *)
(*   - the exploration loop driver (backend/api/routes/control.py).        *)
(* Confidence values are Python floats in [0,1]; they are modelled in      *)
(* fixed point, as integers in 0..Scale (one unit = 1/Scale), products     *)
(* rounded towards zero.                                                   *)
(***************************************************************************)
EXTENDS Integers, Sequences, FiniteSets, TLC

\* ------------------------------------------------------------------------
\* Bounds of the model
\* ------------------------------------------------------------------------
\* number of hypotheses a store may hold
MaxHyp == 2
\* total number of store operations (sum of the revision counters)
MaxOps == 4
\* settings.max_loop_iterations (default 1000) of the modelled deployment
max_loop_iterations == 24
\* session.config.max_iterations of the modelled session (default 1000)
session_max_iterations == 100
\* observations a session captures in all
MaxObs == 2
\* interactive elements a page shows
MaxElements == 2
\* writes made to the FSM store in all (rows inserted and visits counted)
MaxFsmOps == 2
\* page changes one exploration run tracks
MaxPageChanges == 2

\* UI actions started while requests are in flight
MaxActions == 2

\* probes collected for one run of the Verifier
MaxProbes == 2

\* URLs classified by one clusterer
MaxUrls == 7

\* ------------------------------------------------------------------------
\* Constants of the program
\* ------------------------------------------------------------------------
\* resolution of the fixed-point representation of a float confidence
Scale == 1000000
REVISION_THRESHOLD == 200000
FALSIFIED_BELOW == 200000
CONFIRMED_FROM == 850000

NoConf == -1

ACTIVE == "active"
CHALLENGED == "challenged"
CONFIRMED == "confirmed"
FALSIFIED == "falsified"
NEEDS_REVISION == "needs_revision"
HypothesisStatus == {ACTIVE, CHALLENGED, CONFIRMED, FALSIFIED, NEEDS_REVISION}

ProbeOutcome == {"confirmed", "falsified", "inconclusive"}
CriticVerdict == {"accept", "challenge", "reject"}

Max(a, b) == IF a >= b THEN a ELSE b
Min(a, b) == IF a <= b THEN a ELSE b

\* control.py: "Cap at 100 for safety"
ITERATION_CAP == 100
max_iterations == Min(session_max_iterations, ITERATION_CAP)

\* the Hypothesis Store: id -> hypothesis, and the last call that returned a
\* hypothesis (operation, id, argument)
VARIABLES hypotheses, ret

\* the LangGraph run: the node about to execute, the AgentState keys, and the
\* first phase node that has executed ("none" before any has) and the number
\* of phase nodes that have executed
VARIABLES node, loop_phase, loop_iteration, new_observations,
          pending_hypotheses, critic_reviews, probe_results,
          should_continue, error_count, first_phase, phase_steps

\* the AgentState key last_error: None, or what raised inside the Navigator
\* ("llm": the language-model invocation, "tool": the browser action)
VARIABLES last_error

\* the exploration loop of control.py: its position, the locals of
\* _run_exploration_loop, session_phases[session_id] and the observations the
\* memory manager holds for the session
VARIABLES loop_pc, iteration, current_phase_idx, consecutive_no_new,
          explored_elements, loop_pending_hypotheses, session_phase, observations,
          current_state_hash

\* the FSM store shared by the sessions: the page_states table (state_hash ->
\* row), the transitions table (rows in insertion order) and the last call
\* made on the store with the value it returned
VARIABLES page_states, transitions, fsm_ret

storeVars == <<hypotheses, ret>>
fsmVars == <<page_states, transitions, fsm_ret>>
loopVars == <<loop_pc, iteration, current_phase_idx, consecutive_no_new,
              explored_elements, loop_pending_hypotheses, session_phase,
              observations, current_state_hash>>
graphVars == <<node, loop_phase, loop_iteration, new_observations,
               pending_hypotheses, critic_reviews, probe_results,
               should_continue, error_count, first_phase,
                   phase_steps, last_error>>

\* ------------------------------------------------------------------------
\* ConfidenceCalculator
\* ------------------------------------------------------------------------
initial_confidence(evidence_count, competing_count, untested_count) ==
    LET base == IF evidence_count = 1 THEN 200000
                ELSE IF evidence_count = 2 THEN 350000
                ELSE IF evidence_count <= 5 THEN 500000
                ELSE 600000
        competing_penalty == competing_count * 100000
        assumption_penalty == untested_count * 50000
    IN  Max(100000, Min(Scale, base - competing_penalty - assumption_penalty))

\* apply_critic_review with the boost of an accept left uncapped
apply_critic_review_uncapped(current, review) ==
    IF review.verdict = "reject" THEN (current * 3) \div 10
    ELSE IF review.verdict = "challenge"
         THEN Min(current, review.recommended_confidence)
    ELSE (current * 11) \div 10

apply_critic_review(current, review) ==
    IF review.verdict = "reject" THEN (current * 3) \div 10
    ELSE IF review.verdict = "challenge"
         THEN Min(current, review.recommended_confidence)
    ELSE Min(Scale, (current * 11) \div 10)

calc_probe_result_unchanged(current, outcome) ==
    IF outcome = "confirmed" THEN current + ((Scale - current) * 2) \div 10
    ELSE IF outcome = "falsified" THEN current
    ELSE (current * 95) \div 100

calc_probe_result(current, outcome) ==
    IF outcome = "confirmed" THEN current + ((Scale - current) * 2) \div 10
    ELSE IF outcome = "falsified" THEN current \div 2
    ELSE (current * 95) \div 100

\* ------------------------------------------------------------------------
\* HypothesisStore
\* ------------------------------------------------------------------------
ConfidenceEvent(event_type, old, new) ==
    [event_type |-> event_type, old_confidence |-> old, new_confidence |-> new]

\* a mutator that logs an event only when the confidence moved
append_event_if_changed(history, event_type, old, new) ==
    IF old # new THEN Append(history, ConfidenceEvent(event_type, old, new))
    ELSE history

\* hypothesis.confidence_history.append(ConfidenceEvent(...)) of the mutators
append_event(history, event_type, old, new) ==
    Append(history, ConfidenceEvent(event_type, old, new))

\* update() forgetting to log the confidence change
update_history_silent(history, old_conf, new_conf) == history

\* update(): "Log confidence change if it happened"
update_history(history, old_conf, new_conf) ==
    IF old_conf # new_conf
    THEN Append(history, ConfidenceEvent("evidence_added", old_conf, new_conf))
    ELSE history

critic_status(status, new_conf) ==
    IF new_conf < REVISION_THRESHOLD THEN NEEDS_REVISION ELSE status

\* a status rule that re-opens a hypothesis after an inconclusive probe
probe_status_reopen(status, outcome, new_conf) ==
    IF outcome = "falsified" /\ new_conf < FALSIFIED_BELOW THEN FALSIFIED
    ELSE IF outcome = "confirmed" /\ new_conf >= CONFIRMED_FROM THEN CONFIRMED
    ELSE IF new_conf < REVISION_THRESHOLD THEN NEEDS_REVISION
    ELSE IF outcome = "inconclusive" THEN ACTIVE
    ELSE status

probe_status(status, outcome, new_conf) ==
    IF outcome = "falsified" /\ new_conf < FALSIFIED_BELOW THEN FALSIFIED
    ELSE IF outcome = "confirmed" /\ new_conf >= CONFIRMED_FROM THEN CONFIRMED
    ELSE IF new_conf < REVISION_THRESHOLD THEN NEEDS_REVISION
    ELSE status

probe_event_type(outcome) ==
    IF outcome = "confirmed" THEN "probe_confirmed"
    ELSE IF outcome = "falsified" THEN "probe_falsified"
    ELSE "probe_inconclusive"

\* the elements of seq t that are not in seq s, in order, each once
RECURSIVE extend_new(_, _)
extend_new(s, t) ==
    IF t = <<>> THEN s
    ELSE IF \E i \in 1..Len(s) : s[i] = Head(t)
         THEN extend_new(s, Tail(t))
         ELSE extend_new(Append(s, Head(t)), Tail(t))

\* untested_assumptions.extend([a for a in new if a not in old]): the filter
\* is evaluated against the list before the extension
extend_filtered(s, t) == s \o SelectSeq(t, LAMBDA a : \A i \in 1..Len(s) : s[i] # a)

\* ids a caller may pass: those the store can hold, and one it never holds
Ids == 1..(MaxHyp + 1)
Existing == DOMAIN hypotheses
TotalRevisions ==
    LET RECURSIVE sum(_)
        sum(S) == IF S = {} THEN 0
                  ELSE LET x == CHOOSE y \in S : TRUE
                       IN hypotheses[x].revision + sum(S \ {x})
    IN sum(Existing)

Call(op, id, arg, ok) == [op |-> op, id |-> id, arg |-> arg, ok |-> ok]

\* ---- inputs of the store operations ----
HypothesisTypes == {"endpoint_schema"}
Patterns == {"/api/users/{id}", "/api/orders"}
Methods == {"GET"}
\* create(confidence=...) as the exploration loop passes it, or no override
\* with one piece of evidence
CreateArgs ==
    { [type |-> t, description |-> <<"API endpoint discovered:", m, p>>,
       endpoint_pattern |-> p, method |-> m,
       evidence |-> a.evidence, confidence |-> a.confidence] :
        t \in HypothesisTypes, p \in Patterns, m \in Methods,
        a \in { [evidence |-> <<"obs">>, confidence |-> NoConf],
                [evidence |-> <<>>, confidence |-> 750000] } }

Reviews ==
    { [verdict |-> "reject", recommended_confidence |-> 100000,
       alternative_explanations |-> <<"alt">>, untested_assumptions |-> <<>>],
      [verdict |-> "challenge", recommended_confidence |-> 0,
       alternative_explanations |-> <<>>, untested_assumptions |-> <<"assume">>],
      [verdict |-> "challenge", recommended_confidence |-> 300000,
       alternative_explanations |-> <<"alt">>, untested_assumptions |-> <<"assume">>],
      [verdict |-> "accept", recommended_confidence |-> 900000,
       alternative_explanations |-> <<>>, untested_assumptions |-> <<>>] }

\* ---- create ----
new_hypothesis(a) ==
    LET initial_conf == IF a.confidence # NoConf THEN a.confidence
                        ELSE initial_confidence(Len(a.evidence), 0, 0)
    IN  [ type |-> a.type,
          description |-> a.description,
          endpoint_pattern |-> a.endpoint_pattern,
          method |-> a.method,
          status |-> ACTIVE,
          supporting_evidence |-> a.evidence,
          contradicting_evidence |-> <<>>,
          competing_explanations |-> <<>>,
          untested_assumptions |-> <<>>,
          confidence |-> initial_conf,
          confidence_history |->
              <<ConfidenceEvent("initial_inference", 0, initial_conf)>>,
          revision |-> 1 ]

create(a) ==
    /\ Cardinality(Existing) < MaxHyp
    /\ TotalRevisions < MaxOps
    /\ LET id == Cardinality(Existing) + 1
       IN  /\ hypotheses' = (id :> new_hypothesis(a)) @@ hypotheses
           /\ ret' = Call("create", id, a, TRUE)

\* ---- update ----
Field(kwargs, key, old) == IF key \in DOMAIN kwargs THEN kwargs[key] ELSE old

update_hyp(h, kwargs) ==
    LET old_conf == h.confidence
        new_conf == Field(kwargs, "confidence", h.confidence)
    IN  [ h EXCEPT
            !.confidence = new_conf,
            !.status = Field(kwargs, "status", h.status),
            !.competing_explanations =
                Field(kwargs, "competing_explanations", h.competing_explanations),
            !.supporting_evidence =
                Field(kwargs, "supporting_evidence", h.supporting_evidence),
            !.confidence_history =
                update_history(h.confidence_history, old_conf, new_conf),
            !.revision = h.revision + 1 ]

update(id, kwargs) ==
    IF id \notin Existing
    THEN UNCHANGED <<hypotheses, ret>>
    ELSE /\ TotalRevisions < MaxOps
         /\ hypotheses' = [hypotheses EXCEPT ![id] = update_hyp(hypotheses[id], kwargs)]
         /\ ret' = Call("update", id, kwargs, TRUE)

\* ---- add_evidence ----
add_evidence_hyp(h, evidence) ==
    LET supporting == Append(h.supporting_evidence, evidence)
        old_conf == h.confidence
        new_conf == Max(old_conf,
                        initial_confidence(Len(supporting),
                                           Len(h.competing_explanations),
                                           Len(h.untested_assumptions)))
    IN  [ h EXCEPT
            !.supporting_evidence = supporting,
            !.confidence = new_conf,
            !.confidence_history =
                append_event(h.confidence_history, "evidence_added", old_conf, new_conf),
            !.revision = h.revision + 1 ]

add_evidence(id, evidence) ==
    IF id \notin Existing
    THEN UNCHANGED <<hypotheses, ret>>
    ELSE /\ TotalRevisions < MaxOps
         /\ hypotheses' = [hypotheses EXCEPT
                             ![id] = add_evidence_hyp(hypotheses[id], evidence)]
         /\ ret' = Call("add_evidence", id, [evidence |-> evidence], TRUE)

\* ---- apply_critic_evaluation ----
apply_critic_evaluation_hyp(h, evaluation) ==
    LET old_conf == h.confidence
        new_conf == apply_critic_review(old_conf, evaluation)
    IN  [ h EXCEPT
            !.competing_explanations =
                extend_new(h.competing_explanations, evaluation.alternative_explanations),
            !.untested_assumptions =
                extend_filtered(h.untested_assumptions, evaluation.untested_assumptions),
            !.confidence = new_conf,
            !.confidence_history =
                append_event(h.confidence_history, "critic_challenge", old_conf, new_conf),
            !.status = critic_status(h.status, new_conf),
            !.revision = h.revision + 1 ]

apply_critic_evaluation(id, evaluation) ==
    IF id \notin Existing
    THEN UNCHANGED <<hypotheses, ret>>
    ELSE /\ TotalRevisions < MaxOps
         /\ hypotheses' = [hypotheses EXCEPT
                             ![id] = apply_critic_evaluation_hyp(hypotheses[id], evaluation)]
         /\ ret' = Call("apply_critic_evaluation", id, evaluation, TRUE)

\* ---- apply_probe_result ----
apply_probe_result_hyp(h, outcome) ==
    LET old_conf == h.confidence
        new_conf == calc_probe_result(old_conf, outcome)
    IN  [ h EXCEPT
            !.confidence = new_conf,
            !.confidence_history =
                append_event(h.confidence_history, probe_event_type(outcome),
                             old_conf, new_conf),
            !.status = probe_status(h.status, outcome, new_conf),
            !.contradicting_evidence =
                IF outcome = "falsified" THEN Append(@, "probe") ELSE @,
            !.revision = h.revision + 1 ]

apply_probe_result(id, outcome) ==
    IF id \notin Existing
    THEN UNCHANGED <<hypotheses, ret>>
    ELSE /\ TotalRevisions < MaxOps
         /\ hypotheses' = [hypotheses EXCEPT
                             ![id] = apply_probe_result_hyp(hypotheses[id], outcome)]
         /\ ret' = Call("apply_probe_result", id, [outcome |-> outcome], TRUE)

\* ---- the store updates issued by the exploration loop ----
\* critique phase: hypo_store.update(confidence=max(0.3, c - 0.1), ...)
critique_kwargs(h) ==
    [ confidence |-> Max(300000, h.confidence - 100000),
      competing_explanations |-> <<"critique">>,
      status |-> CHALLENGED ]

\* probe phase, result ok: update(confidence=min(0.95, c + 0.2), CONFIRMED)
probe_ok_kwargs(h) ==
    [ confidence |-> Min(950000, h.confidence + 200000),
      status |-> CONFIRMED,
      supporting_evidence |-> Append(h.supporting_evidence, "verified") ]

\* probe phase, result not ok: update(confidence=max(0.1, c - 0.15), NEEDS_REVISION)
probe_failed_kwargs(h) ==
    [ confidence |-> Max(100000, h.confidence - 150000),
      status |-> NEEDS_REVISION ]

to_review(h) == h.status = ACTIVE
to_verify(h) == h.status \in {CHALLENGED, ACTIVE} /\ h.confidence < 900000

\* ---- OpenAPI export (routes/schemas.py) ----
\* HypothesisStore.get_by_type
get_by_type(store, type) == { id \in DOMAIN store : store[id].type = type }

\* the min_confidence query parameter: its default and its lower limit
DEFAULT_MIN_CONFIDENCE == 700000
MinConfidences == {DEFAULT_MIN_CONFIDENCE, 0}

\* get_openapi_spec: the hypotheses passed to builder.add_endpoint
get_openapi_spec(store, min_confidence) ==
    { id \in get_by_type(store, "endpoint_schema") :
        ~(store[id].confidence < min_confidence) }

StoreInit ==
    /\ hypotheses = <<>>
    /\ ret = Call("init", 0, [none |-> TRUE], TRUE)

Create == \E a \in CreateArgs : create(a)
AddEvidence == \E id \in Ids : add_evidence(id, "obs")
ApplyCritic == \E id \in Ids, r \in Reviews : apply_critic_evaluation(id, r)
ApplyProbe == \E id \in Ids, o \in ProbeOutcome : apply_probe_result(id, o)
CritiqueUpdate ==
    \E id \in Existing :
        /\ to_review(hypotheses[id])
        /\ update(id, critique_kwargs(hypotheses[id]))
ProbeUpdate ==
    \E id \in Existing, ok \in BOOLEAN :
        /\ to_verify(hypotheses[id])
        /\ update(id, IF ok THEN probe_ok_kwargs(hypotheses[id])
                      ELSE probe_failed_kwargs(hypotheses[id]))

\* ------------------------------------------------------------------------
\* FSMStore (memory/fsm_store.py)
\* ------------------------------------------------------------------------
Hashes == {"h1", "h2"}
\* the hashes a caller of the store may name in a transition
StoreHashes == Hashes \cup {"h3"}
Sessions == {"s1", "s2"}
\* the url and title a page is recorded with
Pages == { [url |-> "/", page_title |-> "Home"],
           [url |-> "/items", page_title |-> "Items"] }

\* the visits counted over all rows of page_states
RECURSIVE visits_of(_, _)
visits_of(states, S) ==
    IF S = {} THEN 0
    ELSE LET h == CHOOSE g \in S : TRUE
         IN  states[h].visit_count + visits_of(states, S \ {h})
total_visits(states) == visits_of(states, DOMAIN states)

\* datetime.now() as a logical clock: the number of writes made so far
now(states, trans) == total_visits(states) + Len(trans)

\* add_state with the duplicate replaced by the new row (INSERT OR REPLACE)
add_state_replace(states, trans, state_hash, session_id, page) ==
    (state_hash :> [ session_id |-> session_id, url |-> page.url,
                     page_title |-> page.page_title,
                     first_seen |-> IF state_hash \in DOMAIN states
                                    THEN states[state_hash].first_seen
                                    ELSE now(states, trans),
                     visit_count |-> IF state_hash \in DOMAIN states
                                     THEN states[state_hash].visit_count + 1
                                     ELSE 1,
                     is_dead_end |-> FALSE ])
    @@ states

\* add_state: the page_states table after the call. The INSERT fails on the
\* primary key state_hash, whichever session owns the row.
add_state(states, trans, state_hash, session_id, page) ==
    IF state_hash \notin DOMAIN states
    THEN (state_hash :> [ session_id |-> session_id, url |-> page.url,
                          page_title |-> page.page_title,
                          first_seen |-> now(states, trans),
                          visit_count |-> 1,
                          is_dead_end |-> FALSE ])
         @@ states
    ELSE [states EXCEPT ![state_hash].visit_count = @ + 1]

\* add_state: the value returned
add_state_result(states, state_hash) == state_hash \notin DOMAIN states

\* add_transition: the transitions table after the call. No foreign key is
\* enforced (the connection never sets PRAGMA foreign_keys).
add_transition(states, trans, session_id, from_state_hash, to_state_hash, action_target, success) ==
    Append(trans, [ id |-> Len(trans) + 1,
                    session_id |-> session_id,
                    from_state_hash |-> from_state_hash,
                    to_state_hash |-> to_state_hash,
                    action_type |-> "click",
                    action_target |-> action_target,
                    timestamp |-> now(states, trans),
                    success |-> success ])

mark_dead_end(states, state_hash) ==
    IF state_hash \in DOMAIN states
    THEN [states EXCEPT ![state_hash].is_dead_end = TRUE]
    ELSE states

\* ---- detect_loops ----
\* the elements of seq, each kept at its first occurrence
RECURSIVE distinct(_)
distinct(seq) ==
    IF seq = <<>> THEN <<>>
    ELSE <<Head(seq)>> \o distinct(SelectSeq(Tail(seq), LAMBDA x : x # Head(seq)))

pairs(trans) == [i \in 1..Len(trans) |-> <<trans[i].from_state_hash, trans[i].to_state_hash>>]

\* the rows of the SELECT DISTINCT without the test of success
all_edges(trans, session_id) ==
    distinct(pairs(SelectSeq(trans, LAMBDA t : t.session_id = session_id)))

\* SELECT DISTINCT from_state_hash, to_state_hash ... WHERE session_id = ? AND
\* success = TRUE
success_edges(trans, session_id) ==
    distinct(pairs(SelectSeq(trans, LAMBDA t : t.session_id = session_id /\ t.success)))

\* graph.get(node, []) and the keys of graph in insertion order
neighbors(edges, nd) ==
    LET out == SelectSeq(edges, LAMBDA e : e[1] = nd)
    IN  [i \in 1..Len(out) |-> out[i][2]]
graph_keys(edges) == distinct([i \in 1..Len(edges) |-> edges[i][1]])

index(path, nd) == CHOOSE i \in 1..Len(path) : path[i] = nd /\ \A j \in 1..(i - 1) : path[j] # nd

\* dfs(node, path): st holds visited and cycles; rec_stack holds the nodes of
\* path at every moment
RECURSIVE dfs(_, _, _, _)
RECURSIVE dfs_neighbors(_, _, _, _)
dfs(edges, nd, path, st) ==
    dfs_neighbors(edges, Append(path, nd), neighbors(edges, nd),
                  [st EXCEPT !.visited = @ \cup {nd}])

dfs_neighbors(edges, path, nbrs, st) ==
    IF nbrs = <<>> THEN st
    ELSE LET neighbor == Head(nbrs)
             next == IF neighbor \notin st.visited
                     THEN dfs(edges, neighbor, path, st)
                     ELSE IF \E i \in 1..Len(path) : path[i] = neighbor
                     THEN [st EXCEPT !.cycles =
                             Append(@, SubSeq(path, index(path, neighbor), Len(path))
                                         \o <<neighbor>>)]
                     ELSE st
         IN  dfs_neighbors(edges, path, Tail(nbrs), next)

RECURSIVE dfs_roots(_, _, _)
dfs_roots(edges, nodes, st) ==
    IF nodes = <<>> THEN st
    ELSE dfs_roots(edges, Tail(nodes),
                   IF Head(nodes) \notin st.visited
                   THEN dfs(edges, Head(nodes), <<>>, st) ELSE st)

detect_loops(trans, session_id) ==
    LET edges == success_edges(trans, session_id)
    IN  dfs_roots(edges, graph_keys(edges), [visited |-> {}, cycles |-> <<>>]).cycles

\* get_session_states and get_fsm_graph: what a session sees of the store
get_session_states(states, session_id) ==
    { [ state_hash |-> h, url |-> states[h].url,
        page_title |-> states[h].page_title,
        visit_count |-> states[h].visit_count,
        is_dead_end |-> states[h].is_dead_end ] :
        h \in { g \in DOMAIN states : states[g].session_id = session_id } }

get_fsm_graph(states, trans, session_id) ==
    [ nodes |-> get_session_states(states, session_id),
      edges |-> SelectSeq(trans, LAMBDA e : e.session_id = session_id) ]

FsmCall(op, session_id, args, value) ==
    [op |-> op, session_id |-> session_id, args |-> args, value |-> value]

FsmInit ==
    /\ page_states = <<>>
    /\ transitions = <<>>
    /\ fsm_ret = FsmCall("none", "none", <<>>, FALSE)

AddState ==
    \E h \in Hashes, s \in Sessions, page \in Pages :
        /\ now(page_states, transitions) < MaxFsmOps
        /\ page_states' = add_state(page_states, transitions, h, s, page)
        /\ fsm_ret' = FsmCall("add_state", s, <<h, page>>,
                              add_state_result(page_states, h))
        /\ UNCHANGED transitions

AddTransition ==
    \E s \in Sessions, from \in StoreHashes, to \in StoreHashes, success \in BOOLEAN :
        /\ now(page_states, transitions) < MaxFsmOps
        /\ transitions' = add_transition(page_states, transitions, s, from, to, "1",
                                         success)
        /\ fsm_ret' = FsmCall("add_transition", s, <<from, to>>, Len(transitions'))
        /\ UNCHANGED page_states

MarkDeadEnd ==
    \E h \in Hashes :
        /\ page_states' = mark_dead_end(page_states, h)
        /\ fsm_ret' = FsmCall("mark_dead_end", "none", <<h>>, FALSE)
        /\ UNCHANGED transitions

\* ------------------------------------------------------------------------
\* Supervisor and the LangGraph of build_scientific_loop_graph
\* ------------------------------------------------------------------------
ERROR_LIMIT == 10
Phases == {"explore", "observe", "infer", "critique", "probe", "update"}

\* Supervisor.execute, "observe" sending the loop on to infer in every case
next_phase_always_infer(current_phase, new_obs, pending, reviews) ==
    IF current_phase = "explore" THEN "observe"
    ELSE IF current_phase = "observe" THEN "infer"
    ELSE IF current_phase = "infer"
         THEN IF pending # <<>> THEN "critique" ELSE "explore"
    ELSE IF current_phase = "critique"
         THEN IF \E i \in 1..Len(reviews) : reviews[i].required_probes # <<>>
              THEN "probe" ELSE "update"
    ELSE IF current_phase = "probe" THEN "update"
    ELSE "explore"

\* Supervisor.execute: the phase that follows current_phase
next_phase(current_phase, new_obs, pending, reviews) ==
    IF current_phase = "explore" THEN "observe"
    ELSE IF current_phase = "observe"
         THEN IF new_obs # <<>> THEN "infer" ELSE "explore"
    ELSE IF current_phase = "infer"
         THEN IF pending # <<>> THEN "critique" ELSE "explore"
    ELSE IF current_phase = "critique"
         THEN IF \E i \in 1..Len(reviews) : reviews[i].required_probes # <<>>
              THEN "probe" ELSE "update"
    ELSE IF current_phase = "probe" THEN "update"
    ELSE "explore"

\* Supervisor._check_termination: TRUE when a termination reason is returned
check_termination_reason(iter, errors) ==
    iter >= max_loop_iterations \/ errors > ERROR_LIMIT

\* route_by_phase without the check of the iteration budget
route_by_phase_no_budget(continue, errors, iter, phase) ==
    IF continue = FALSE THEN "END"
    ELSE IF errors > ERROR_LIMIT THEN "END"
    ELSE phase

route_by_phase(continue, errors, iter, phase) ==
    IF continue = FALSE THEN "END"
    ELSE IF errors > ERROR_LIMIT THEN "END"
    ELSE IF iter >= max_loop_iterations THEN "END"
    ELSE phase

\* check_termination, the conditional edge out of termination_check
check_termination(continue) == IF continue = FALSE THEN "END" ELSE "supervisor"

\* ---- what the agents can return ----
ObservationBatches == { <<>>, <<"obs1">>, <<"obs1", "obs2">> }
PendingBatches ==
    { <<>>,
      << [id |-> "h1", type |-> "endpoint_schema", method |-> "POST"] >>,
      << [id |-> "h1", type |-> "endpoint_schema", method |-> "GET"],
         [id |-> "h2", type |-> "permission_gate", method |-> "GET"] >> }

\* CriticAgent._generate_default_probes
generate_default_probes(h) ==
    IF h.type = "endpoint_schema"
    THEN <<"replay_exact">>
         \o (IF h.method \in {"POST", "PUT", "PATCH"} THEN <<"omit_field">> ELSE <<>>)
         \o <<"auth_variation">>
    ELSE IF h.type \in {"business_rule", "state_transition"} THEN <<"sequence_break">>
    ELSE IF h.type = "permission_gate" THEN <<"auth_variation">>
    ELSE <<>>

\* CriticAgent._evaluate_hypothesis on an evaluation with the given verdict
\* and probes, and CriticAgent._create_error_review when it raised
evaluate_hypothesis(h, verdict, probes) ==
    [ hypothesis_id |-> h.id, verdict |-> verdict,
      required_probes |->
          IF verdict \in {"challenge", "reject"} /\ probes = <<>>
          THEN generate_default_probes(h) ELSE probes ]
create_error_review(h) ==
    [ hypothesis_id |-> h.id, verdict |-> "challenge", required_probes |-> <<>> ]

ReviewsOf(h) ==
    { evaluate_hypothesis(h, v, p) :
        v \in CriticVerdict, p \in { <<>>, <<"replay_exact">> } }
    \cup { create_error_review(h) }

\* the probes the Verifier collects from the reviews, in order
RECURSIVE collect_probes(_)
collect_probes(reviews) ==
    IF reviews = <<>> THEN <<>>
    ELSE [ i \in 1..Len(Head(reviews).required_probes) |->
             [ hypothesis_id |-> Head(reviews).hypothesis_id,
               probe_type |-> Head(reviews).required_probes[i] ] ]
         \o collect_probes(Tail(reviews))

max_requests_per_run == 10

GraphInit ==
    /\ node = "supervisor"
    /\ loop_phase = "explore"
    /\ loop_iteration = 0
    /\ new_observations = <<>>
    /\ pending_hypotheses = <<>>
    /\ critic_reviews = <<>>
    /\ probe_results = <<>>
    /\ should_continue = TRUE
    /\ error_count = 0
    /\ first_phase = "none"
    /\ phase_steps = 0
    /\ last_error = "None"

Ran(phase) ==
    /\ first_phase' = IF first_phase = "none" THEN phase ELSE first_phase
    /\ phase_steps' = phase_steps + 1

\* the supervisor node followed by the conditional edge route_by_phase
SupervisorNode ==
    /\ node = "supervisor"
    /\ IF loop_phase = "update" /\ check_termination_reason(loop_iteration, error_count)
       THEN /\ should_continue' = FALSE
            /\ UNCHANGED <<loop_phase, loop_iteration>>
       ELSE /\ loop_phase' = next_phase(loop_phase, new_observations,
                                        pending_hypotheses, critic_reviews)
            /\ loop_iteration' = loop_iteration + 1
            /\ UNCHANGED should_continue
    /\ node' = route_by_phase(should_continue', error_count, loop_iteration', loop_phase')
    /\ UNCHANGED <<new_observations, pending_hypotheses, critic_reviews,
                   probe_results, error_count, first_phase,
                   phase_steps>>

\* NavigatorAgent.execute: an action, or an exception counted as an error
ExploreNode ==
    /\ node = "explore"
    /\ \E raised \in {"None", "llm", "tool"} :
          /\ error_count' = IF raised # "None" THEN error_count + 1 ELSE error_count
          /\ last_error' = IF raised # "None" THEN raised ELSE last_error
    /\ Ran("explore")
    /\ node' = "supervisor"
    /\ UNCHANGED <<loop_phase, loop_iteration, new_observations, pending_hypotheses,
                   critic_reviews, probe_results, should_continue>>

\* InterceptorAgent.execute
ObserveNode ==
    /\ node = "observe"
    /\ new_observations' \in ObservationBatches
    /\ Ran("observe")
    /\ node' = "supervisor"
    /\ UNCHANGED <<loop_phase, loop_iteration, pending_hypotheses, critic_reviews,
                   probe_results, should_continue, error_count>>

\* _infer_node: analyst, then business logic
InferNode ==
    /\ node = "infer"
    /\ IF new_observations = <<>>
       THEN pending_hypotheses' = <<>>
       ELSE pending_hypotheses' \in PendingBatches
    /\ Ran("infer")
    /\ node' = "supervisor"
    /\ UNCHANGED <<loop_phase, loop_iteration, new_observations, critic_reviews,
                   probe_results, should_continue, error_count>>

\* CriticAgent.execute: one review per pending hypothesis
CritiqueNode ==
    /\ node = "critique"
    /\ critic_reviews' \in
          { r \in [1..Len(pending_hypotheses) ->
                      UNION { ReviewsOf(pending_hypotheses[i]) :
                                i \in 1..Len(pending_hypotheses) }] :
              \A i \in 1..Len(pending_hypotheses) :
                  r[i] \in ReviewsOf(pending_hypotheses[i]) }
    /\ Ran("critique")
    /\ node' = "supervisor"
    /\ UNCHANGED <<loop_phase, loop_iteration, new_observations, pending_hypotheses,
                   probe_results, should_continue, error_count>>

\* VerifierAgent.execute: one result per collected probe, at most
\* max_requests_per_run of them
ProbeNode ==
    /\ node = "probe"
    /\ LET probes == collect_probes(critic_reviews)
           n == Min(Len(probes), max_requests_per_run)
       IN  \E outcomes \in [1..n -> ProbeOutcome] :
             probe_results' =
                 [ i \in 1..n |->
                     [ hypothesis_id |-> probes[i].hypothesis_id,
                       probe_type |-> probes[i].probe_type,
                       outcome |-> outcomes[i] ] ]
    /\ Ran("probe")
    /\ node' = "supervisor"
    /\ UNCHANGED <<loop_phase, loop_iteration, new_observations, pending_hypotheses,
                   critic_reviews, should_continue, error_count>>

\* _memory_update_node returning no "probe_results" key
UpdateNode_keeps_results ==
    /\ node = "update"
    /\ new_observations' = <<>>
    /\ pending_hypotheses' = <<>>
    /\ critic_reviews' = <<>>
    /\ Ran("update")
    /\ node' = "termination_check"
    /\ UNCHANGED <<loop_phase, loop_iteration, should_continue, error_count,
                   probe_results>>

\* _memory_update_node
UpdateNode ==
    /\ node = "update"
    /\ new_observations' = <<>>
    /\ pending_hypotheses' = <<>>
    /\ critic_reviews' = <<>>
    /\ probe_results' = <<>>
    /\ Ran("update")
    /\ node' = "termination_check"
    /\ UNCHANGED <<loop_phase, loop_iteration, should_continue, error_count>>

\* _termination_check_node followed by the conditional edge check_termination
TerminationCheckNode ==
    /\ node = "termination_check"
    /\ should_continue' =
          ~(loop_iteration >= max_loop_iterations \/ error_count > ERROR_LIMIT)
    /\ node' = check_termination(should_continue')
    /\ UNCHANGED <<loop_phase, loop_iteration, new_observations, pending_hypotheses,
                   critic_reviews, probe_results, error_count, first_phase,
                   phase_steps>>

\* ------------------------------------------------------------------------
\* The exploration loop driver, _run_exploration_loop
\* ------------------------------------------------------------------------
phases == <<"explore", "observe", "infer", "critique", "probe", "update">>
PhaseAt(idx) == phases[(idx % Len(phases)) + 1]
EXHAUSTED_AFTER == 15

\* captured request/response pairs
ObservationPool ==
    { [url |-> "/api/users/1", method |-> "GET", status_code |-> 200,
       content_type |-> "application/json", json_body |-> TRUE],
      [url |-> "/api/users/2", method |-> "GET", status_code |-> 200,
       content_type |-> "text/plain", json_body |-> FALSE],
      [url |-> "/api/orders", method |-> "POST", status_code |-> 204,
       content_type |-> "application/json", json_body |-> FALSE],
      [url |-> "/home", method |-> "GET", status_code |-> 200,
       content_type |-> "text/html", json_body |-> FALSE] }
CaptureBatches == { <<>> } \cup { <<o>> : o \in ObservationPool }

\* URLClusterer.url_to_pattern on the URLs of the pool
url_to_pattern(url) ==
    IF url \in {"/api/users/1", "/api/users/2"} THEN "/api/users/{id}" ELSE url

\* observe phase: "Check if it's likely an API call"
is_api(obs) ==
    \/ obs.content_type = "application/json"
    \/ obs.json_body
    \/ obs.url \in {"/api/users/1", "/api/users/2", "/api/orders"}

api_calls(recent_obs) ==
    SelectSeq(recent_obs, LAMBDA obs : is_api(obs) /\ obs.status_code # 204)

\* the first k ids of S in store order
FirstIds(S, k) == { id \in S : Cardinality({ j \in S : j < id }) < k }

\* the patterns of the pending observations, in order of first appearance
RECURSIVE cluster(_)
cluster(pending) ==
    IF pending = <<>> THEN <<>>
    ELSE LET rest == cluster(SelectSeq(Tail(pending),
                         LAMBDA h : url_to_pattern(h.url) # url_to_pattern(Head(pending).url)))
         IN  <<url_to_pattern(Head(pending).url)>> \o rest

sample_obs(pending, pattern) ==
    LET i == CHOOSE i \in 1..Len(pending) :
                 /\ url_to_pattern(pending[i].url) = pattern
                 /\ \A j \in 1..(i - 1) : url_to_pattern(pending[j].url) # pattern
    IN  pending[i]

default_description(method, pattern) == <<"API endpoint discovered:", method, pattern>>

\* infer phase: hypo_data of one cluster; llm is "fail" or the text returned
hypo_data(pending, pattern, llm) ==
    LET obs == sample_obs(pending, pattern)
        enriched == obs.json_body /\ llm # "fail"
    IN  [ type |-> "endpoint_schema",
          description |-> IF enriched THEN <<llm>>
                          ELSE default_description(obs.method, pattern),
          endpoint_pattern |-> pattern,
          method |-> obs.method,
          evidence |-> <<>>,
          confidence |-> IF enriched THEN 750000 ELSE 600000 ]

\* the duplicate test with the description comparison alone
is_duplicate_hypothesis_by_description(new_hypo, store) ==
    \E id \in DOMAIN store : store[id].description = new_hypo.description

is_duplicate_hypothesis(new_hypo, store) ==
    \E id \in DOMAIN store :
        \/ /\ store[id].endpoint_pattern = new_hypo.endpoint_pattern
           /\ store[id].method = new_hypo.method
        \/ store[id].description = new_hypo.description

\* infer phase: "Store hypothesis (with deduplication)" over the clusters
RECURSIVE store_clusters(_, _, _, _)
store_clusters(store, pending, patterns, llm) ==
    IF patterns = <<>> THEN store
    ELSE LET data == hypo_data(pending, Head(patterns), llm[Head(patterns)])
             next == IF is_duplicate_hypothesis(data, store) THEN store
                     ELSE (Cardinality(DOMAIN store) + 1 :> new_hypothesis(data)) @@ store
         IN  store_clusters(next, pending, Tail(patterns), llm)

LLMResults == {"fail", "Returns a user record"}

\* the session the loop runs for, and the page compute_page_hash maps to a hash
session_id == "s1"
page_of(state_hash) ==
    IF state_hash = "h1" THEN [url |-> "/", page_title |-> "Home"]
    ELSE [url |-> "/items", page_title |-> "Items"]

\* the elements of S in ascending order
sorted(S) ==
    CHOOSE seq \in [1..Cardinality(S) -> S] :
        \A i, j \in 1..Cardinality(S) : i < j => seq[i] < seq[j]

\* "Track FSM state transition" with the transition written for a state that
\* was not recorded
track_click_unrecorded(fsm, element_id, new_state_hash) ==
    IF new_state_hash # fsm.current_state_hash
    THEN LET trans == add_transition(fsm.page_states, fsm.transitions, session_id,
                                     fsm.current_state_hash, new_state_hash,
                                     element_id, TRUE)
         IN  [ page_states |-> fsm.page_states,
               transitions |-> trans,
               fsm_ret |-> FsmCall("add_transition", session_id,
                                   <<fsm.current_state_hash, new_state_hash>>,
                                   Len(trans)),
               current_state_hash |-> new_state_hash ]
    ELSE fsm

\* "Track FSM state transition" after one click: add_state, add_transition,
\* current_state_hash = new_state_hash
track_click(fsm, element_id, new_state_hash) ==
    IF new_state_hash # fsm.current_state_hash
    THEN LET states == add_state(fsm.page_states, fsm.transitions, new_state_hash,
                                 session_id, page_of(new_state_hash))
             trans == add_transition(states, fsm.transitions, session_id,
                                     fsm.current_state_hash, new_state_hash,
                                     element_id, TRUE)
         IN  [ page_states |-> states,
               transitions |-> trans,
               fsm_ret |-> FsmCall("add_transition", session_id,
                                   <<fsm.current_state_hash, new_state_hash>>,
                                   Len(trans)),
               current_state_hash |-> new_state_hash ]
    ELSE fsm

\* the clicks of one explore phase, in order
RECURSIVE track_clicks(_, _, _)
track_clicks(fsm, element_ids, new_state_hashes) ==
    IF element_ids = <<>> THEN fsm
    ELSE track_clicks(track_click(fsm, Head(element_ids), Head(new_state_hashes)),
                      Tail(element_ids), Tail(new_state_hashes))

LoopInit ==
    /\ loop_pc = "start"
    /\ iteration = 0
    /\ current_phase_idx = 0
    /\ consecutive_no_new = 0
    /\ explored_elements = {}
    /\ loop_pending_hypotheses = <<>>
    /\ session_phase = "idle"
    /\ observations = <<>>
    /\ current_state_hash = "None"

\* lines 205-297: browser start, initial page state, initial observations
StartLoop ==
    /\ loop_pc = "start"
    /\ \E initial_obs \in CaptureBatches : observations' = observations \o initial_obs
    /\ \E h \in {"h1"} :
          /\ current_state_hash' = h
          /\ page_states' = add_state(page_states, transitions, h, session_id,
                                      page_of(h))
          /\ fsm_ret' = FsmCall("add_state", session_id, <<h, page_of(h)>>,
                                add_state_result(page_states, h))
    /\ loop_pc' = "loop"
    /\ UNCHANGED <<iteration, current_phase_idx, consecutive_no_new, explored_elements,
                   loop_pending_hypotheses, session_phase, hypotheses, ret,
                   transitions>>

\* the head of one iteration of "for iteration in range(max_iterations)"
BeginPhase(phase) ==
    /\ loop_pc = "loop"
    /\ iteration < max_iterations
    /\ PhaseAt(current_phase_idx) = phase
    /\ session_phase' = phase
    /\ iteration' = iteration + 1

\* the loop ends by break or when the range is used up
EndPhase(break) ==
    loop_pc' = IF break \/ iteration' = max_iterations THEN "done" ELSE "loop"

Captures(batch) == Len(observations) + Len(batch) <= MaxObs

ExplorePhase ==
    /\ BeginPhase("explore")
    /\ \/ \* an exception reaches the handler of the phase
          /\ current_phase_idx' = current_phase_idx + 1
          /\ UNCHANGED <<consecutive_no_new, explored_elements, observations,
                         current_state_hash, fsmVars>>
       \/ \E elements \in SUBSET (1..MaxElements), form_obs \in CaptureBatches,
             click_obs \in CaptureBatches :
            LET new_clickable == elements \ explored_elements
                elements_to_click == FirstIds(new_clickable, 5)
                no_new == IF new_clickable # {}
                          THEN IF click_obs # <<>> THEN 0 ELSE consecutive_no_new
                          ELSE consecutive_no_new + 1
            IN  /\ Captures(form_obs \o click_obs)
                /\ \E new_state_hashes \in [1..Cardinality(elements_to_click) -> Hashes] :
                      \E fsm \in { track_clicks(
                                       [ page_states |-> page_states,
                                         transitions |-> transitions,
                                         fsm_ret |-> fsm_ret,
                                         current_state_hash |-> current_state_hash ],
                                       sorted(elements_to_click), new_state_hashes) } :
                          /\ Len(fsm.transitions) <= MaxPageChanges
                          /\ page_states' = fsm.page_states
                          /\ transitions' = fsm.transitions
                          /\ fsm_ret' = fsm.fsm_ret
                          /\ current_state_hash' = fsm.current_state_hash
                /\ observations' = observations \o form_obs \o click_obs
                /\ explored_elements' = explored_elements \cup elements_to_click
                /\ consecutive_no_new' = no_new
                /\ current_phase_idx' = IF no_new > EXHAUSTED_AFTER THEN 1
                                        ELSE current_phase_idx + 1
    /\ EndPhase(FALSE)
    /\ UNCHANGED <<loop_pending_hypotheses, hypotheses, ret>>

ObservePhase ==
    /\ BeginPhase("observe")
    /\ loop_pending_hypotheses' = api_calls(observations)
    /\ current_phase_idx' = current_phase_idx + 1
    /\ EndPhase(FALSE)
    /\ UNCHANGED <<consecutive_no_new, explored_elements, observations, hypotheses, ret>>

InferPhase ==
    /\ BeginPhase("infer")
    /\ IF loop_pending_hypotheses = <<>>
       THEN UNCHANGED <<hypotheses, loop_pending_hypotheses>>
       ELSE \/ \* clustering raises: the phase is abandoned
               UNCHANGED <<hypotheses, loop_pending_hypotheses>>
            \/ LET patterns == cluster(loop_pending_hypotheses)
                   Pats == { patterns[i] : i \in 1..Len(patterns) }
               IN  \E llm \in [Pats -> LLMResults] :
                     /\ hypotheses' = store_clusters(hypotheses, loop_pending_hypotheses,
                                                     patterns, llm)
                     /\ Cardinality(DOMAIN hypotheses') <= MaxHyp
                     /\ loop_pending_hypotheses' = <<>>
    /\ current_phase_idx' = current_phase_idx + 1
    /\ EndPhase(FALSE)
    /\ UNCHANGED <<consecutive_no_new, explored_elements, observations, ret>>

CritiquePhase ==
    /\ BeginPhase("critique")
    /\ LET reviewed == FirstIds({ id \in Existing : to_review(hypotheses[id]) }, 3)
       IN  \E critiqued \in SUBSET reviewed :
             hypotheses' =
                 [ id \in Existing |->
                     IF id \in critiqued
                     THEN update_hyp(hypotheses[id], critique_kwargs(hypotheses[id]))
                     ELSE hypotheses[id] ]
    /\ current_phase_idx' = current_phase_idx + 1
    /\ EndPhase(FALSE)
    /\ UNCHANGED <<consecutive_no_new, explored_elements, observations,
                   loop_pending_hypotheses, ret>>

ProbePhase ==
    /\ BeginPhase("probe")
    /\ LET probed == FirstIds({ id \in Existing : to_verify(hypotheses[id]) }, 5)
       IN  \E result \in [probed -> {"ok", "not ok", "error"}] :
             hypotheses' =
                 [ id \in Existing |->
                     IF id \in probed /\ result[id] = "ok"
                     THEN update_hyp(hypotheses[id], probe_ok_kwargs(hypotheses[id]))
                     ELSE IF id \in probed /\ result[id] = "not ok"
                     THEN update_hyp(hypotheses[id], probe_failed_kwargs(hypotheses[id]))
                     ELSE hypotheses[id] ]
    /\ current_phase_idx' = current_phase_idx + 1
    /\ EndPhase(FALSE)
    /\ UNCHANGED <<consecutive_no_new, explored_elements, observations,
                   loop_pending_hypotheses, ret>>

RECURSIVE sum_confidence(_)
sum_confidence(S) ==
    IF S = {} THEN 0
    ELSE LET x == CHOOSE y \in S : TRUE
         IN  hypotheses[x].confidence + sum_confidence(S \ {x})

\* update phase: "Check termination conditions"
high_confidence ==
    /\ Existing # {}
    /\ Cardinality({ id \in Existing : hypotheses[id].status = CONFIRMED }) > 5
    /\ sum_confidence(Existing) * 10 > 8 * Scale * Cardinality(Existing)

UpdatePhase ==
    /\ BeginPhase("update")
    /\ LET break == consecutive_no_new > EXHAUSTED_AFTER \/ high_confidence
       IN  /\ current_phase_idx' = IF break THEN current_phase_idx
                                   ELSE current_phase_idx + 1
           /\ EndPhase(break)
    /\ UNCHANGED <<consecutive_no_new, explored_elements, observations,
                   loop_pending_hypotheses, hypotheses, ret>>

\* ------------------------------------------------------------------------
\* Browser manager: request interception (browser/manager.py)
\* ------------------------------------------------------------------------
\* Time is counted in seconds.  clock is time.time(); the handlers of the
\* requests in flight are coroutines that interleave at their awaits.
VARIABLES clock, current_interaction_id, last_request_time, routes, manager_observations

browserVars == <<clock, current_interaction_id, last_request_time, routes, manager_observations>>

\* settings.max_requests_per_minute
max_requests_per_minute == 2

\* self.min_request_interval = 60.0 / settings.max_requests_per_minute
min_request_interval == 60 \div max_requests_per_minute

\* time.time() at construction: far more than a minute after the epoch
StartTime == 2 * 60

TimeSteps == {15, 30}

MaxTime == StartTime + 60

Requests == {"q1", "q2", "q3"}

NoTime == 0 - 1

BrowserInit ==
    /\ clock = StartTime
    /\ current_interaction_id = 0
    /\ last_request_time = 0
    /\ routes = [q \in Requests |-> [pc |-> "none", issued_during |-> 0, wake |-> NoTime, released |-> NoTime]]
    /\ manager_observations = <<>>

\* navigate / click / scroll ...: a fresh interaction id, then the action runs
\* (uuid4 values are modelled by consecutive numbers)
StartAction ==
    /\ current_interaction_id < MaxActions
    /\ current_interaction_id' = current_interaction_id + 1
    /\ UNCHANGED <<clock, last_request_time, routes, manager_observations>>

\* _enforce_rate_limit up to its await: the elapsed time and the sleep it asks for
sleep_needed(current_time, last) == min_request_interval - (current_time - last)

\* the page issues a request during the action in progress; _intercept_request
\* starts and runs to its first await: the sleep of _enforce_rate_limit, or
\* route.fetch() when no sleep is needed
InterceptRequest(q) ==
    /\ routes[q].pc = "none"
    /\ current_interaction_id > 0
    /\ IF clock - last_request_time < min_request_interval
       THEN /\ routes' = [routes EXCEPT ![q] = [pc |-> "sleeping", issued_during |-> current_interaction_id, wake |-> clock + sleep_needed(clock, last_request_time), released |-> NoTime]]
            /\ UNCHANGED last_request_time
       ELSE /\ routes' = [routes EXCEPT ![q] = [pc |-> "fetching", issued_during |-> current_interaction_id, wake |-> NoTime, released |-> clock]]
            /\ last_request_time' = clock
    /\ UNCHANGED <<clock, current_interaction_id, manager_observations>>

\* asyncio.sleep returns; last_request_time is set and route.fetch() is awaited
SleepReturns(q) ==
    /\ routes[q].pc = "sleeping"
    /\ clock >= routes[q].wake
    /\ last_request_time' = clock
    /\ routes' = [routes EXCEPT ![q].pc = "fetching", ![q].released = clock]
    /\ UNCHANGED <<clock, current_interaction_id, manager_observations>>

FetchOutcomes == {"api", "other", "error"}

\* route.fetch() returns (or raises); API traffic goes on to await response.text()
FetchReturns(q, outcome) ==
    /\ routes[q].pc = "fetching"
    /\ routes' = [routes EXCEPT ![q].pc = IF outcome = "api" THEN "reading" ELSE "done"]
    /\ UNCHANGED <<clock, current_interaction_id, last_request_time, manager_observations>>

\* the NetworkObservation built once the body has been read
observation_of(q, interaction_id) == [id |-> q, interaction_id |-> interaction_id]

\* response.text() returns: the observation is created and appended
BodyReturns(q) ==
    /\ routes[q].pc = "reading"
    /\ manager_observations' = Append(manager_observations, observation_of(q, current_interaction_id))
    /\ routes' = [routes EXCEPT ![q].pc = "done"]
    /\ UNCHANGED <<clock, current_interaction_id, last_request_time>>

\* time passes
Tick ==
    \E d \in TimeSteps :
        /\ clock + d <= MaxTime
        /\ clock' = clock + d
        /\ UNCHANGED <<current_interaction_id, last_request_time, routes, manager_observations>>

\* ------------------------------------------------------------------------
\* Guardrails: the per-minute request counter (core/guardrails.py)
\* ------------------------------------------------------------------------
\* admitted is the history of the timestamps for which check_rate_limit
\* returned True; guard_ret is the outcome of the last call.
VARIABLES rate_limit_state, admitted, guard_ret

guardVars == <<rate_limit_state, admitted, guard_ret>>

\* RateLimitState()
GuardInit ==
    /\ rate_limit_state = [requests_this_minute |-> 0, minute_start_timestamp |-> 0, total_requests |-> 0]
    /\ admitted = <<>>
    /\ guard_ret = "none"

\* the counter reset at the head of check_rate_limit
reset_if_minute_passed(st, current_time) ==
    IF current_time - st.minute_start_timestamp >= 60
    THEN [st EXCEPT !.requests_this_minute = 0, !.minute_start_timestamp = current_time]
    ELSE st

\* Guardrails.check_rate_limit(current_time): True, or GuardrailViolation
check_rate_limit(st, current_time) ==
    LET s1 == reset_if_minute_passed(st, current_time)
    IN  IF s1.requests_this_minute >= max_requests_per_minute
        THEN [state |-> s1, ok |-> FALSE]
        ELSE [state |-> [s1 EXCEPT !.requests_this_minute = @ + 1, !.total_requests = @ + 1], ok |-> TRUE]

\* one call with the present time; successive calls have non-decreasing timestamps
CheckRateLimit ==
    /\ \E r \in { check_rate_limit(rate_limit_state, clock) } :
          /\ rate_limit_state' = r.state
          /\ admitted' = IF r.ok THEN Append(admitted, clock) ELSE admitted
          /\ guard_ret' = IF r.ok THEN "True" ELSE "GuardrailViolation"
    /\ UNCHANGED browserVars

\* ------------------------------------------------------------------------
\* Explore phase: which UI actions are executed (api/routes/control.py)
\* ------------------------------------------------------------------------
\* executed is the history of the UI actions carried out, validated the
\* history of the actions handed to Guardrails.validate_action.
VARIABLES nav_explored, executed, validated

navVars == <<nav_explored, executed, validated>>

\* An element text is pad filler characters followed by a token; the href is
\* absent, on the target site or on another site.
token_len(token) == CASE token = "logout" -> 6 [] token = "sign out" -> 8 [] token = "signout" -> 7 [] token = "log out" -> 7 [] OTHER -> 4

LogoutTokens == {"logout", "sign out", "signout", "log out"}

PageElements == { [id |-> 1, text |-> [pad |-> 0, token |-> "home"], href |-> "internal"], [id |-> 2, text |-> [pad |-> 0, token |-> "logout"], href |-> "internal"], [id |-> 3, text |-> [pad |-> 26, token |-> "sign out"], href |-> ""], [id |-> 4, text |-> [pad |-> 0, token |-> "docs"], href |-> "external"], [id |-> 5, text |-> [pad |-> 0, token |-> "log out"], href |-> ""] }

\* any(x in elem_text.lower() for x in [...]) on elem_text = text[:30]
skip_logout(elem) == elem.text.token \in LogoutTokens /\ elem.text.pad + token_len(elem.text.token) <= 30

\* if elem_href and '://' in elem_href and session.target_url not in elem_href
skip_external(elem) == elem.href = "external"

\* the elements clicked out of elements_to_click (handed over as a set)
clicked_of(elements_to_click) == { e \in elements_to_click : ~skip_external(e) /\ ~skip_logout(e) }

\* links = page.query_selector_all('a[href]') with the target host in the href
direct_links(elements) == { e \in elements : e.href = "internal" }

click_action(e, path) == [action_type |-> "click", target |-> e.id, path |-> path]

NavInit ==
    /\ nav_explored = {}
    /\ executed = {}
    /\ validated = {}

\* one pass of the explore phase over the page shown: the form is submitted
\* when there is one, then either the unexplored overlay elements are
\* clicked or, when none is left, the page is scrolled and the first link
\* to the target site that accepts a click is clicked
ExploreClicks ==
    \E elements \in SUBSET PageElements, has_form \in BOOLEAN :
        LET new_clickable == { e \in elements : e.id \notin nav_explored }
            form_actions == IF has_form THEN { [action_type |-> "submit", target |-> 0, path |-> "form"] } ELSE {}
        IN  /\ IF new_clickable # {}
               THEN /\ executed' = executed \cup form_actions \cup { click_action(e, "overlay") : e \in clicked_of(new_clickable) }
                    /\ nav_explored' = nav_explored \cup { e.id : e \in new_clickable }
               ELSE /\ \E links \in { direct_links(elements) } :
                          \/ /\ links = {}
                             /\ executed' = executed \cup form_actions \cup { [action_type |-> "scroll", target |-> 0, path |-> "direct"] }
                          \/ \E link \in links :
                                executed' = executed \cup form_actions \cup { [action_type |-> "scroll", target |-> 0, path |-> "direct"], click_action(link, "direct") }
                    /\ UNCHANGED nav_explored
            /\ UNCHANGED validated

\* ------------------------------------------------------------------------
\* Verifier: one run of execute over the collected probes (agents/verifier.py)
\* ------------------------------------------------------------------------
\* auth_headers and verifier_cookies hold the names set by set_auth (the
\* values play no part).  verifier_run holds the state handed to execute
\* (the collected probes) and, once execute has run, what the HTTP client
\* did, the requests it was given and the probe results returned.
VARIABLES auth_headers, verifier_cookies, verifier_run

verifierVars == <<auth_headers, verifier_cookies, verifier_run>>

HeaderNames == {"Authorization", "X-Api-Key"}

CookieNames == {"session"}

HypothesisIds == {"a", "b"}

ProbeTypes == {"replay_exact", "auth_variation"}

Statuses == {200, 500}

\* what client.request does: a response, httpx.RequestError or another exception
NetOutcomes == { [kind |-> "response", status |-> s] : s \in Statuses } \cup { [kind |-> "RequestError", status |-> 0], [kind |-> "Exception", status |-> 0] }

\* k.lower()
lower(k) == CASE k = "Authorization" -> "authorization" [] k = "X-Api-Key" -> "x-api-key" [] OTHER -> k

VerifierInit ==
    /\ auth_headers = {}
    /\ verifier_cookies = {}
    /\ verifier_run = [probes |-> <<>>, executed |-> FALSE, net |-> <<>>, requests |-> <<>>, results |-> <<>>]

\* set_auth(headers, cookies): dict.update of each part that is given
SetAuth ==
    \E headers \in SUBSET HeaderNames, cks \in SUBSET CookieNames :
        /\ auth_headers' = auth_headers \cup headers
        /\ verifier_cookies' = verifier_cookies \cup cks
        /\ UNCHANGED verifier_run

\* state["pending_hypotheses"], by id: hypothesis b is gone
PendingIds == {"a"}

\* _build_probe_request: None (here <<>>) without the hypothesis, else the
\* one request to send (state["current_url"] is set)
build_probe_request(probe, pending, auth) ==
    IF probe.hypothesis_id \notin pending THEN <<>>
    ELSE LET headers == {"Content-Type", "Accept"} \cup auth
         IN  << [ probe_type |-> probe.probe_type,
                  headers |-> IF probe.probe_type = "auth_variation"
                              THEN { k \in headers : lower(k) \notin {"authorization", "cookie"} }
                              ELSE headers ] >>

\* the request as client.request receives it: cookies=self.cookies every time
client_request(request, cks) == [probe_type |-> request.probe_type, headers |-> request.headers, cookies |-> cks]

\* _evaluate_outcome for the two probe kinds
evaluate_outcome(probe_type, status) ==
    IF probe_type = "replay_exact"
    THEN IF 200 <= status /\ status < 300 THEN "confirmed" ELSE "inconclusive"
    ELSE IF status = 401 \/ status = 403 \/ (200 <= status /\ status < 300) THEN "confirmed" ELSE "inconclusive"

probe_result(probe, outcome) == [hypothesis_id |-> probe.hypothesis_id, probe_type |-> probe.probe_type, outcome |-> outcome]

\* a result that reports the failure as a falsification
create_error_result_falsified(probe) == probe_result(probe, "falsified")

\* _create_error_result
create_error_result(probe) == probe_result(probe, "inconclusive")

\* _execute_probe inside the try of execute: the result of one probe
execute_probe(probe, request, net_outcome) ==
    IF request = <<>> THEN create_error_result(probe)
    ELSE IF net_outcome.kind = "response" THEN probe_result(probe, evaluate_outcome(probe.probe_type, net_outcome.status))
    ELSE create_error_result(probe)

\* the critic reviews of the next run arrive: their required probes, in order
ReceiveProbes ==
    \E n \in 0..MaxProbes :
        \E probes \in [1..n -> [hypothesis_id : HypothesisIds, probe_type : ProbeTypes]] :
            /\ verifier_run' = [probes |-> probes, executed |-> FALSE, net |-> <<>>, requests |-> <<>>, results |-> <<>>]
            /\ UNCHANGED <<auth_headers, verifier_cookies>>

\* VerifierAgent.execute on the collected probes
Execute ==
    /\ ~verifier_run.executed
    /\ \E run \in { Min(Len(verifier_run.probes), max_requests_per_run) } :
          \E net \in [1..run -> NetOutcomes] :
              \E built \in { [ i \in 1..run |-> build_probe_request(verifier_run.probes[i], PendingIds, auth_headers) ] } :
                  verifier_run' = [ verifier_run EXCEPT !.executed = TRUE, !.net = net,
                                      !.requests = [ i \in { k \in 1..run : built[k] # <<>> } |-> client_request(built[i][1], verifier_cookies) ],
                                      !.results = [ i \in 1..run |-> execute_probe(verifier_run.probes[i], built[i], net[i]) ] ]
    /\ UNCHANGED <<auth_headers, verifier_cookies>>

\* ------------------------------------------------------------------------
\* The exploration task and its cancellation (api/routes/control.py)
\* ------------------------------------------------------------------------
\* task_pc is the await the task is suspended at: "increment" (increment_loop
\* at the head of an iteration), "emit" (emit_phase_change), "body" (an await
\* of the phase body), "guarded" (an await of the explore phase inside a
\* try with a bare except), "sleep" (the pause that ends the iteration),
\* "cleanup" (the finally block) or "done".  must_cancel is the pending
\* request of task.cancel(); cancel_delivered records that CancelledError
\* has been raised inside the task.
VARIABLES task_pc, task_iteration, must_cancel, cancel_delivered

taskVars == <<task_pc, task_iteration, must_cancel, cancel_delivered>>

TaskInit ==
    /\ task_pc = "increment"
    /\ task_iteration = 0
    /\ must_cancel = FALSE
    /\ cancel_delivered = FALSE

\* the awaits whose CancelledError is caught by a bare except
SwallowsCancel == {"emit", "guarded"}

\* where the task goes on after the await at pc has returned, or after the
\* bare except around it has caught what it raised
after_await(pc, started) ==
    CASE pc = "increment" -> {"emit"}
      [] pc = "emit" -> {"body"}
      [] pc = "body" -> IF PhaseAt(started - 1) = "explore" THEN {"guarded", "sleep"} ELSE {"sleep"}
      [] pc = "guarded" -> {"sleep"}
      [] pc = "sleep" -> IF started < max_iterations THEN {"increment"} ELSE {"cleanup"}
      [] OTHER -> {"done"}

\* stop_exploration: task.cancel() on the running task
StopExploration ==
    /\ task_pc # "done"
    /\ must_cancel' = TRUE
    /\ UNCHANGED <<task_pc, task_iteration, cancel_delivered>>

\* the awaited operation returns and the task runs to its next await; the
\* test of asyncio.current_task().cancelled() at the head of the iteration
\* is False in a task that is running
Resume ==
    /\ task_pc # "done"
    /\ ~must_cancel
    /\ task_iteration' = IF task_pc = "increment" THEN task_iteration + 1 ELSE task_iteration
    /\ task_pc' \in after_await(task_pc, task_iteration)
    /\ UNCHANGED <<must_cancel, cancel_delivered>>

\* CancelledError is raised at the await the task is suspended at: a bare
\* except swallows it and the task goes on, anywhere else it reaches the
\* finally block
DeliverCancel ==
    /\ task_pc # "done"
    /\ must_cancel
    /\ must_cancel' = FALSE
    /\ cancel_delivered' = TRUE
    /\ task_pc' \in IF task_pc \in SwallowsCancel THEN after_await(task_pc, task_iteration)
                    ELSE IF task_pc = "cleanup" THEN {"done"} ELSE {"cleanup"}
    /\ UNCHANGED task_iteration

\* ------------------------------------------------------------------------
\* URL clusterer with its positional statistics (inference/url_clustering.py)
\* ------------------------------------------------------------------------
\* A path is the sequence of its non-empty segments.  segment_stats maps a
\* position (counted from 0) to the number of times each literal value was
\* kept there; cluster_ret is the last path classified and its pattern.
VARIABLES segment_stats, cluster_ret

clusterVars == <<segment_stats, cluster_ret>>

Literals == {"users", "orders", "items", "carts", "teams", "posts"}

Segments == Literals \cup {"42", "{id}"}

Paths == { <<s>> : s \in Segments } \cup { <<"users", s>> : s \in {"42", "me"} }

ClusterInit ==
    /\ segment_stats = [position \in 0..1 |-> [s \in {} |-> 0]]
    /\ cluster_ret = [path |-> <<>>, pattern |-> <<>>]

\* the checks of _is_dynamic_segment on the text alone (UUID, digits,
\* ObjectId, entropy) for the segments above: only "42" passes one
dynamic_by_shape(segment) == segment = "42"

stats_total(counts) == Cardinality({ <<s, k>> \in (DOMAIN counts) \X (1..(MaxUrls + 1)) : k <= counts[s] })

\* "Check if segment varies at this position"
varies_at(stats, position) ==
    /\ DOMAIN stats[position] # {}
    /\ Cardinality(DOMAIN stats[position]) > 5
    /\ 2 * Cardinality(DOMAIN stats[position]) > stats_total(stats[position])

\* URLClusterer._is_dynamic_segment
is_dynamic_segment(stats, segment, position) == dynamic_by_shape(segment) \/ varies_at(stats, position)

\* self.segment_stats[i][segment] += 1
count_segment(stats, segment, position) ==
    [stats EXCEPT ![position] = IF segment \in DOMAIN @ THEN [@ EXCEPT ![segment] = @ + 1] ELSE (segment :> 1) @@ @]

\* URLClusterer.url_to_pattern: the pattern and the statistics it leaves
RECURSIVE classify(_, _, _)
classify(stats, path, i) ==
    IF i > Len(path) THEN [pattern |-> <<>>, stats |-> stats]
    ELSE IF is_dynamic_segment(stats, path[i], i - 1)
         THEN LET rest == classify(stats, path, i + 1)
              IN  [pattern |-> <<"{id}">> \o rest.pattern, stats |-> rest.stats]
         ELSE LET rest == classify(count_segment(stats, path[i], i - 1), path, i + 1)
              IN  [pattern |-> <<path[i]>> \o rest.pattern, stats |-> rest.stats]

\* url_to_pattern(url) on the next URL
UrlToPattern ==
    \E path \in Paths :
        \E r \in { classify(segment_stats, path, 1) } :
            /\ \A position \in 0..1 : stats_total(r.stats[position]) <= MaxUrls
            /\ segment_stats' = r.stats
            /\ cluster_ret' = [path |-> path, pattern |-> r.pattern]

\* the variables of the components added after the stores and the loops
\* ------------------------------------------------------------------------
\* Schema merger (backend/inference/schema_merger.py), manual strategy
\* ------------------------------------------------------------------------
VARIABLES schemas, merged_data
mergerVars == <<schemas, merged_data>>

\* JSON values: primitives, lists of primitives, dicts of primitives
Primitives ==
    { [kind |-> "null"], [kind |-> "bool"], [kind |-> "int"], [kind |-> "float"],
      [kind |-> "str", s |-> "x"], [kind |-> "str", s |-> "a@b.co"] }
JsonLists == { [kind |-> "list", items |-> t] : t \in UNION { [1..n -> Primitives] : n \in 0..2 } }
JsonDicts == { [kind |-> "dict", fields |-> f] : f \in UNION { [K -> Primitives] : K \in SUBSET {"id", "name"} } }
JsonValues == Primitives \cup JsonLists \cup JsonDicts

\* the schema {}
EmptySchema == [key \in {} |-> TRUE]
\* dict.get(key, default)
get(schema, key, default) == IF key \in DOMAIN schema THEN schema[key] ELSE default

MergerInit ==
    /\ schemas = [present |-> FALSE, schema |-> EmptySchema]
    /\ merged_data = <<>>

is_email(s) == s = "a@b.co"

RECURSIVE infer_schema(_)
infer_schema(data) ==
    CASE data.kind = "null" -> [type |-> "null"]
      [] data.kind = "bool" -> [type |-> "boolean"]
      [] data.kind = "int" -> [type |-> "integer"]
      [] data.kind = "float" -> [type |-> "number"]
      [] data.kind = "str" -> IF is_email(data.s) THEN [type |-> "string", format |-> "email"]
                              ELSE [type |-> "string"]
      [] data.kind = "list" -> IF Len(data.items) = 0
                               THEN [type |-> "array", items |-> EmptySchema]
                               ELSE [type |-> "array", items |-> infer_schema(Head(data.items))]
      [] data.kind = "dict" -> [type |-> "object",
                                properties |-> [key \in DOMAIN data.fields |->
                                                    infer_schema(data.fields[key])],
                                required |-> DOMAIN data.fields]

\* merged = deepcopy(schema); merged["nullable"] = True
with_nullable(schema) ==
    [key \in DOMAIN schema \cup {"nullable"} |-> IF key = "nullable" THEN TRUE ELSE schema[key]]

RECURSIVE merge_schemas(_, _)
RECURSIVE merge_object_schemas(_, _)
RECURSIVE merge_array_schemas(_, _)
merge_schemas(schema1, schema2) ==
    LET type1 == get(schema1, "type", "None")
        type2 == get(schema2, "type", "None")
    IN  IF type1 = type2
        THEN IF type1 = "object" THEN merge_object_schemas(schema1, schema2)
             ELSE IF type1 = "array" THEN merge_array_schemas(schema1, schema2)
             ELSE schema1
        ELSE IF type1 # "None" /\ type2 # "None"
        THEN [anyOf |-> <<schema1, schema2>>]
        ELSE IF type1 = "null" THEN with_nullable(schema2)
        ELSE IF type2 = "null" THEN with_nullable(schema1)
        ELSE IF DOMAIN schema1 # {} THEN schema1 ELSE schema2

\* "required" is kept as the set of its keys
merge_object_schemas(schema1, schema2) ==
    LET props1 == get(schema1, "properties", EmptySchema)
        props2 == get(schema2, "properties", EmptySchema)
        req1 == get(schema1, "required", {})
        req2 == get(schema2, "required", {})
        merged_props == [key \in DOMAIN props1 \cup DOMAIN props2 |->
                            IF key \in DOMAIN props1 /\ key \in DOMAIN props2
                            THEN merge_schemas(props1[key], props2[key])
                            ELSE IF key \in DOMAIN props1 THEN props1[key]
                            ELSE props2[key]]
        merged_required == req1 \cap req2
    IN  IF merged_required # {}
        THEN [type |-> "object", properties |-> merged_props, required |-> merged_required]
        ELSE [type |-> "object", properties |-> merged_props]

merge_array_schemas(schema1, schema2) ==
    LET items1 == get(schema1, "items", EmptySchema)
        items2 == get(schema2, "items", EmptySchema)
    IN  [type |-> "array", items |-> merge_schemas(items1, items2)]

\* _merge_manual for one endpoint pattern
MergeManual ==
    /\ Len(merged_data) < 2
    /\ \E new_data \in JsonValues :
          /\ schemas' = [present |-> TRUE,
                         schema |-> IF ~schemas.present THEN infer_schema(new_data)
                                    ELSE merge_schemas(schemas.schema, infer_schema(new_data))]
          /\ merged_data' = Append(merged_data, new_data)

\* ---- BrowserManager.get_pending_observations ----
\* drained is the history of the lists the calls returned, in call order
VARIABLES drained
drainVars == <<drained>>
MaxDrains == 2
DrainInit == drained = <<>>

\* the copy is returned and the buffer is left empty
get_pending_observations_keeps(buffer) == [returned |-> buffer, buffer |-> buffer]

\* observations = self.observations.copy(); self.observations = []; return observations
get_pending_observations(buffer) == [returned |-> buffer, buffer |-> <<>>]

\* a call from the exploration loop; the method has no await
GetPendingObservations ==
    /\ Len(drained) < MaxDrains
    /\ \E r \in { get_pending_observations(manager_observations) } :
          /\ drained' = Append(drained, r.returned)
          /\ manager_observations' = r.buffer
    /\ UNCHANGED <<clock, current_interaction_id, last_request_time, routes>>

\* ------------------------------------------------------------------------
\* Exploration tasks of several sessions (api/routes/control.py)
\* ------------------------------------------------------------------------
\* tasks is every task asyncio.create_task has made, in creation order; a
\* task's pc is "created" (scheduled, its coroutine not yet entered),
\* "running" (suspended at an await of the loop), "cleanup" (at the first
\* await of the loop's finally block), "stopping" (at browser.stop()) or
\* "done".  running_tasks maps a session to the index of its task, 0 for no
\* entry.  start_waiting counts the start_exploration handlers suspended at
\* get_session.  fsm_db is the connection of the FSM store of the app;
\* record_ret is the outcome of the last add_state of a loop.
VARIABLES tasks, running_tasks, start_waiting, fsm_db, record_ret
registryVars == <<tasks, running_tasks, start_waiting, fsm_db, record_ret>>

MaxTasks == 3
MaxWaiting == 1
LoopSessions == {"A", "B"}

RegistryInit ==
    /\ tasks = <<>>
    /\ running_tasks = [s \in LoopSessions |-> 0]
    /\ start_waiting = [s \in LoopSessions |-> 0]
    /\ fsm_db = "open"
    /\ record_ret = [session |-> "None", ok |-> TRUE]

\* start_exploration up to "session = await memory_manager.get_session(session_id)"
StartRequest(s) ==
    /\ start_waiting[s] < MaxWaiting
    /\ start_waiting' = [start_waiting EXCEPT ![s] = @ + 1]
    /\ UNCHANGED <<tasks, running_tasks, fsm_db, record_ret>>

\* the test of start_exploration with no task ever found running
already_running_never(entries, all_tasks, s) == FALSE

\* session_id in running_tasks and not running_tasks[session_id].done()
already_running(entries, all_tasks, s) ==
    entries[s] # 0 /\ all_tasks[entries[s]].pc # "done"

\* start_exploration after get_session has returned: 400, or create_task and
\* running_tasks[session_id] = task
StartExploration(s) ==
    /\ start_waiting[s] > 0
    /\ start_waiting' = [start_waiting EXCEPT ![s] = @ - 1]
    /\ IF already_running(running_tasks, tasks, s)
       THEN UNCHANGED <<tasks, running_tasks>>
       ELSE /\ Len(tasks) < MaxTasks
            /\ tasks' = Append(tasks, [session |-> s, pc |-> "created", must_cancel |-> FALSE])
            /\ running_tasks' = [running_tasks EXCEPT ![s] = Len(tasks) + 1]
    /\ UNCHANGED <<fsm_db, record_ret>>

\* Task.cancel(): a request on a task that is not done, nothing on a done one
cancel(task) == IF task.pc = "done" THEN task ELSE [task EXCEPT !.must_cancel = TRUE]

\* stop_exploration: 400 without an entry, else task.cancel(); the entry stays
StopRequest(s) ==
    /\ running_tasks[s] # 0
    /\ tasks' = [tasks EXCEPT ![running_tasks[s]] = cancel(@)]
    /\ UNCHANGED <<running_tasks, start_waiting, fsm_db, record_ret>>

\* fsm_store.add_state from the explore phase of a running loop
RecordState(t) ==
    /\ tasks[t].pc = "running"
    /\ record_ret' = [session |-> tasks[t].session, ok |-> fsm_db = "open"]
    /\ UNCHANGED <<tasks, running_tasks, start_waiting, fsm_db>>

\* the event loop resumes task t, which runs to its next await or to its end
TaskStep(t) ==
    /\ tasks[t].pc # "done"
    /\ LET task == tasks[t]
           s == task.session
       IN  CASE task.pc = "created" ->
                  \* a task cancelled before its first step never enters its coroutine
                  /\ tasks' = [tasks EXCEPT ![t].pc = IF task.must_cancel THEN "done" ELSE "running",
                                            ![t].must_cancel = FALSE]
                  /\ UNCHANGED <<running_tasks, fsm_db>>
             [] task.pc = "running" ->
                  \* CancelledError is swallowed by a bare except or reaches the
                  \* finally block; without it the loop goes on, ends or fails
                  /\ \E pc \in {"running", "cleanup"} :
                        tasks' = [tasks EXCEPT ![t].pc = pc, ![t].must_cancel = FALSE]
                  /\ UNCHANGED <<running_tasks, fsm_db>>
             [] task.pc = "cleanup" ->
                  \* update_session_status and close() inside try / bare except:
                  \* a CancelledError at the first await skips close()
                  /\ fsm_db' = IF task.must_cancel THEN fsm_db ELSE "closed"
                  /\ tasks' = [tasks EXCEPT ![t].pc = "stopping", ![t].must_cancel = FALSE]
                  /\ UNCHANGED running_tasks
             [] OTHER ->
                  \* browser.stop() returns or raises; the finally of
                  \* run_exploration deletes the entry of the session
                  /\ tasks' = [tasks EXCEPT ![t].pc = "done", ![t].must_cancel = FALSE]
                  /\ running_tasks' = [running_tasks EXCEPT ![s] = 0]
                  /\ UNCHANGED fsm_db
    /\ UNCHANGED <<start_waiting, record_ret>>

auxVars == <<browserVars, guardVars, navVars, verifierVars, taskVars, clusterVars, mergerVars, drainVars, registryVars>>

vars == <<hypotheses, ret, node, loop_phase, loop_iteration, new_observations,
          pending_hypotheses, critic_reviews, probe_results, should_continue,
          error_count, first_phase, phase_steps, last_error, loop_pc, iteration, current_phase_idx,
          consecutive_no_new, explored_elements, loop_pending_hypotheses,
          session_phase, observations, current_state_hash, page_states,
          transitions, fsm_ret, auxVars>>

\* ------------------------------------------------------------------------
\* Specifications
\* ------------------------------------------------------------------------
Init == StoreInit /\ GraphInit /\ LoopInit /\ FsmInit /\ BrowserInit /\ GuardInit /\ NavInit /\ VerifierInit /\ TaskInit /\ ClusterInit /\ MergerInit /\ DrainInit /\ RegistryInit

\* the Hypothesis Store under any sequence of its operations
Next ==
    \/ Create /\ UNCHANGED <<graphVars, loopVars, fsmVars, auxVars>>
    \/ AddEvidence /\ UNCHANGED <<graphVars, loopVars, fsmVars, auxVars>>
    \/ ApplyCritic /\ UNCHANGED <<graphVars, loopVars, fsmVars, auxVars>>
    \/ ApplyProbe /\ UNCHANGED <<graphVars, loopVars, fsmVars, auxVars>>
    \/ CritiqueUpdate /\ UNCHANGED <<graphVars, loopVars, fsmVars, auxVars>>
    \/ ProbeUpdate /\ UNCHANGED <<graphVars, loopVars, fsmVars, auxVars>>
Spec == Init /\ [][Next]_vars

\* the LangGraph of the scientific loop
GraphNext ==
    \/ SupervisorNode /\ UNCHANGED <<storeVars, loopVars, fsmVars, auxVars, last_error>>
    \/ ExploreNode /\ UNCHANGED <<storeVars, loopVars, fsmVars, auxVars>>
    \/ ObserveNode /\ UNCHANGED <<storeVars, loopVars, fsmVars, auxVars, last_error>>
    \/ InferNode /\ UNCHANGED <<storeVars, loopVars, fsmVars, auxVars, last_error>>
    \/ CritiqueNode /\ UNCHANGED <<storeVars, loopVars, fsmVars, auxVars, last_error>>
    \/ ProbeNode /\ UNCHANGED <<storeVars, loopVars, fsmVars, auxVars, last_error>>
    \/ UpdateNode /\ UNCHANGED <<storeVars, loopVars, fsmVars, auxVars, last_error>>
    \/ TerminationCheckNode /\ UNCHANGED <<storeVars, loopVars, fsmVars, auxVars, last_error>>
SpecGraph == Init /\ [][GraphNext]_vars

\* the exploration loop driver
LoopNext ==
    \/ StartLoop /\ UNCHANGED <<graphVars, auxVars>>
    \/ ExplorePhase /\ UNCHANGED <<graphVars, auxVars>>
    \/ ObservePhase /\ UNCHANGED <<graphVars, fsmVars, current_state_hash, auxVars>>
    \/ InferPhase /\ UNCHANGED <<graphVars, fsmVars, current_state_hash, auxVars>>
    \/ CritiquePhase /\ UNCHANGED <<graphVars, fsmVars, current_state_hash, auxVars>>
    \/ ProbePhase /\ UNCHANGED <<graphVars, fsmVars, current_state_hash, auxVars>>
    \/ UpdatePhase /\ UNCHANGED <<graphVars, fsmVars, current_state_hash, auxVars>>
SpecLoop == Init /\ [][LoopNext]_vars

\* the FSM store under any sequence of calls made by the sessions
FsmNext ==
    \/ AddState /\ UNCHANGED <<storeVars, graphVars, loopVars, auxVars>>
    \/ AddTransition /\ UNCHANGED <<storeVars, graphVars, loopVars, auxVars>>
    \/ MarkDeadEnd /\ UNCHANGED <<storeVars, graphVars, loopVars, auxVars>>
SpecFSM == Init /\ [][FsmNext]_vars

\* the browser manager: UI actions, intercepted requests and the passing of time
coreVars == <<storeVars, graphVars, loopVars, fsmVars>>

BrowserNext ==
    \/ StartAction /\ UNCHANGED <<coreVars, guardVars, navVars, verifierVars, taskVars, clusterVars, mergerVars, drainVars, registryVars>>
    \/ (\E q \in Requests : InterceptRequest(q)) /\ UNCHANGED <<coreVars, guardVars, navVars, verifierVars, taskVars, clusterVars, mergerVars, drainVars, registryVars>>
    \/ (\E q \in Requests : SleepReturns(q)) /\ UNCHANGED <<coreVars, guardVars, navVars, verifierVars, taskVars, clusterVars, mergerVars, drainVars, registryVars>>
    \/ (\E q \in Requests, outcome \in FetchOutcomes : FetchReturns(q, outcome)) /\ UNCHANGED <<coreVars, guardVars, navVars, verifierVars, taskVars, clusterVars, mergerVars, drainVars, registryVars>>
    \/ (\E q \in Requests : BodyReturns(q)) /\ UNCHANGED <<coreVars, guardVars, navVars, verifierVars, taskVars, clusterVars, mergerVars, drainVars, registryVars>>
    \/ Tick /\ UNCHANGED <<coreVars, guardVars, navVars, verifierVars, taskVars, clusterVars, mergerVars, drainVars, registryVars>>
    \/ GetPendingObservations /\ UNCHANGED <<coreVars, guardVars, navVars, verifierVars, taskVars, clusterVars, mergerVars, registryVars>>
SpecBrowser == Init /\ [][BrowserNext]_vars

\* the guardrail counter under calls at non-decreasing times
GuardNext ==
    \/ CheckRateLimit /\ UNCHANGED <<coreVars, navVars, verifierVars, taskVars, clusterVars, mergerVars, drainVars, registryVars>>
    \/ Tick /\ UNCHANGED <<coreVars, guardVars, navVars, verifierVars, taskVars, clusterVars, mergerVars, drainVars, registryVars>>
SpecGuard == Init /\ [][GuardNext]_vars

\* the explore phase, pass after pass
NavNext == ExploreClicks /\ UNCHANGED <<coreVars, browserVars, guardVars, verifierVars, taskVars, clusterVars, mergerVars, drainVars, registryVars>>
SpecNav == Init /\ [][NavNext]_vars

\* the Verifier: set_auth calls and runs of execute
VerifierNext ==
    \/ SetAuth /\ UNCHANGED <<coreVars, browserVars, guardVars, navVars, taskVars, clusterVars, mergerVars, drainVars, registryVars>>
    \/ ReceiveProbes /\ UNCHANGED <<coreVars, browserVars, guardVars, navVars, taskVars, clusterVars, mergerVars, drainVars, registryVars>>
    \/ Execute /\ UNCHANGED <<coreVars, browserVars, guardVars, navVars, taskVars, clusterVars, mergerVars, drainVars, registryVars>>
SpecVerifier == Init /\ [][VerifierNext]_vars

\* the exploration task under stop requests; the event loop runs a task
\* that can run
TaskNext ==
    \/ StopExploration /\ UNCHANGED <<coreVars, browserVars, guardVars, navVars, verifierVars, clusterVars, mergerVars, drainVars, registryVars>>
    \/ Resume /\ UNCHANGED <<coreVars, browserVars, guardVars, navVars, verifierVars, clusterVars, mergerVars, drainVars, registryVars>>
    \/ DeliverCancel /\ UNCHANGED <<coreVars, browserVars, guardVars, navVars, verifierVars, clusterVars, mergerVars, drainVars, registryVars>>
SpecTask == Init /\ [][TaskNext]_vars /\ WF_vars(Resume) /\ WF_vars(DeliverCancel)

\* the clusterer under any sequence of URLs
ClusterNext == UrlToPattern /\ UNCHANGED <<coreVars, browserVars, guardVars, navVars, verifierVars, taskVars, mergerVars, drainVars, registryVars>>
SpecCluster == Init /\ [][ClusterNext]_vars

MergerNext == MergeManual /\ UNCHANGED <<coreVars, browserVars, guardVars, navVars, verifierVars, taskVars, clusterVars, drainVars, registryVars>>
SpecMerger == Init /\ [][MergerNext]_vars

RegistryNext ==
    \/ (\E s \in LoopSessions : StartRequest(s)) /\ UNCHANGED <<coreVars, browserVars, guardVars, navVars, verifierVars, taskVars, clusterVars, mergerVars, drainVars>>
    \/ (\E s \in LoopSessions : StartExploration(s)) /\ UNCHANGED <<coreVars, browserVars, guardVars, navVars, verifierVars, taskVars, clusterVars, mergerVars, drainVars>>
    \/ (\E s \in LoopSessions : StopRequest(s)) /\ UNCHANGED <<coreVars, browserVars, guardVars, navVars, verifierVars, taskVars, clusterVars, mergerVars, drainVars>>
    \/ (\E t \in DOMAIN tasks : RecordState(t)) /\ UNCHANGED <<coreVars, browserVars, guardVars, navVars, verifierVars, taskVars, clusterVars, mergerVars, drainVars>>
    \/ (\E t \in DOMAIN tasks : TaskStep(t)) /\ UNCHANGED <<coreVars, browserVars, guardVars, navVars, verifierVars, taskVars, clusterVars, mergerVars, drainVars>>
SpecRegistry == Init /\ [][RegistryNext]_vars

\* ---- the observe and infer phases over any pending observations ----
MaxBatch == 2
\* API calls the observe phase can hand to the infer phase
InferPool ==
    { [url |-> "/api/users/1", method |-> "GET", status_code |-> 200,
       content_type |-> "application/json", json_body |-> TRUE],
      [url |-> "/api/users/2", method |-> "POST", status_code |-> 200,
       content_type |-> "application/json", json_body |-> TRUE],
      [url |-> "/api/orders", method |-> "GET", status_code |-> 200,
       content_type |-> "application/json", json_body |-> FALSE],
      [url |-> "/api/orders", method |-> "POST", status_code |-> 200,
       content_type |-> "application/json", json_body |-> TRUE] }
InferBatches == UNION { [1..n -> InferPool] : n \in 1..MaxBatch }

\* observe phase: pending_hypotheses = the API calls among the recent observations
ObserveBatch ==
    /\ loop_pending_hypotheses = <<>>
    /\ \E recent_obs \in InferBatches : loop_pending_hypotheses' = api_calls(recent_obs)
    /\ UNCHANGED <<hypotheses, ret>>

\* infer phase: cluster the pending URLs, one hypothesis per cluster, deduplicated
InferBatch ==
    /\ loop_pending_hypotheses # <<>>
    /\ LET patterns == cluster(loop_pending_hypotheses)
           Pats == { patterns[i] : i \in 1..Len(patterns) }
       IN  \E llm \in [Pats -> LLMResults] :
             /\ hypotheses' = store_clusters(hypotheses, loop_pending_hypotheses,
                                             patterns, llm)
             /\ Cardinality(DOMAIN hypotheses') <= MaxHyp
    /\ loop_pending_hypotheses' = <<>>
    /\ UNCHANGED ret

InferOthers == <<graphVars, fsmVars, auxVars, loop_pc, iteration, current_phase_idx, consecutive_no_new, explored_elements, session_phase, observations, current_state_hash>>
InferNext ==
    \/ ObserveBatch /\ UNCHANGED InferOthers
    \/ InferBatch /\ UNCHANGED InferOthers
SpecInfer == Init /\ [][InferNext]_vars

\* ------------------------------------------------------------------------
\* Properties
\* ------------------------------------------------------------------------
Mutators == {"add_evidence", "apply_critic_evaluation", "apply_probe_result"}
History(h) == h.confidence_history
LastEvent(h) == History(h)[Len(History(h))]
\* the step is a call of op that returned a hypothesis
Called(ops) == hypotheses' # hypotheses /\ ret'.op \in ops

\* C1: every successful add_evidence, apply_critic_evaluation or
\* apply_probe_result on an existing hypothesis appends exactly one confidence
\* event to its history and increases its revision by exactly one.
C1_OneEventOneRevision ==
    [][ Called(Mutators) =>
          /\ ret'.id \in DOMAIN hypotheses
          /\ Len(History(hypotheses'[ret'.id])) = Len(History(hypotheses[ret'.id])) + 1
          /\ hypotheses'[ret'.id].revision = hypotheses[ret'.id].revision + 1
          /\ \A id \in DOMAIN hypotheses \ {ret'.id} : hypotheses'[id] = hypotheses[id]
      ]_vars

\* an add_evidence that left the confidence where it was has still logged
C1_Witness ==
    /\ ret.op = "add_evidence"
    /\ ret.id \in DOMAIN hypotheses
    /\ LastEvent(hypotheses[ret.id]).event_type = "evidence_added"
    /\ LastEvent(hypotheses[ret.id]).old_confidence
         = LastEvent(hypotheses[ret.id]).new_confidence
    /\ hypotheses[ret.id].revision >= 3

\* C2: the confidence history of every hypothesis is a chain: it is not
\* empty, each event starts from the confidence the previous one ended with,
\* and the last event ends with the current confidence.
C2_HistoryChain ==
    \A id \in DOMAIN hypotheses :
        LET H == History(hypotheses[id])
        IN  /\ Len(H) >= 1
            /\ \A k \in 1..(Len(H) - 1) : H[k + 1].old_confidence = H[k].new_confidence
            /\ H[Len(H)].new_confidence = hypotheses[id].confidence

\* update() has changed a confidence after another mutator did
C2_Witness ==
    /\ ret.op = "update"
    /\ ret.id \in DOMAIN hypotheses
    /\ Len(History(hypotheses[ret.id])) >= 3
    /\ LastEvent(hypotheses[ret.id]).old_confidence
         # LastEvent(hypotheses[ret.id]).new_confidence
    /\ LastEvent(hypotheses[ret.id]).new_confidence = ret.arg.confidence

\* C3: no operation of the store or of the exploration loop gives a hypothesis
\* that is no longer active (confirmed in particular) the status active
\* again; so a hypothesis that has reached confirmed is never active again.
C3_NoReturnToActive ==
    [][ \A id \in DOMAIN hypotheses :
          hypotheses[id].status # ACTIVE => hypotheses'[id].status # ACTIVE ]_vars

\* a mutator has acted on a confirmed hypothesis
C3_Witness ==
    \E id \in DOMAIN hypotheses :
        /\ hypotheses[id].status = CONFIRMED
        /\ ret.id = id
        /\ ret.op \in Mutators
        /\ \E k \in 1..Len(History(hypotheses[id])) :
              History(hypotheses[id])[k].new_confidence = 950000

\* C4: apply_critic_evaluation and apply_probe_result move a falsified
\* hypothesis only to needs_revision, and a confirmed one only to
\* needs_revision.
C4_TerminalStatus ==
    [][ Called({"apply_critic_evaluation", "apply_probe_result"}) =>
          \A id \in DOMAIN hypotheses :
            /\ hypotheses[id].status = FALSIFIED
                 => hypotheses'[id].status \in {FALSIFIED, NEEDS_REVISION}
            /\ hypotheses[id].status = CONFIRMED
                 => hypotheses'[id].status \in {CONFIRMED, NEEDS_REVISION}
      ]_vars

SameKey(h, g) ==
    /\ h.type = g.type
    /\ h.endpoint_pattern = g.endpoint_pattern
    /\ h.method = g.method

\* C5: create never writes a hypothesis whose (kind, endpoint pattern, method)
\* the store already holds.
C5_CreateRejectsDuplicate ==
    [][ \A id \in DOMAIN hypotheses' \ DOMAIN hypotheses :
          ~ \E e \in DOMAIN hypotheses : SameKey(hypotheses[e], hypotheses'[id]) ]_vars

\* C6: apply_critic_evaluation called a second time with the same review on
\* the same hypothesis changes neither confidence nor status and appends no
\* event.
C6_CriticIdempotent ==
    [][ (Called({"apply_critic_evaluation"}) /\ ret' = ret) =>
          /\ hypotheses'[ret.id].confidence = hypotheses[ret.id].confidence
          /\ hypotheses'[ret.id].status = hypotheses[ret.id].status
          /\ Len(History(hypotheses'[ret.id])) = Len(History(hypotheses[ret.id]))
      ]_vars

\* C7 as stated: on a confidence in [0,1], apply_probe_result(confirmed)
\* never lowers the confidence and apply_probe_result(falsified) leaves it
\* strictly lower.
C7_ProbeMonotoneStrict ==
    [][ Called({"apply_probe_result"}) =>
          LET old == hypotheses[ret'.id].confidence
              new == hypotheses'[ret'.id].confidence
          IN  old \in 0..Scale =>
                /\ ret'.arg.outcome = "confirmed" => new >= old
                /\ ret'.arg.outcome = "falsified" => new < old
      ]_vars

\* C7 amended: on a confidence in [0,1], apply_probe_result(confirmed) never
\* lowers the confidence; apply_probe_result(falsified) leaves a positive
\* confidence strictly lower and leaves a confidence of 0 at 0.
C7_ProbeMonotone ==
    [][ Called({"apply_probe_result"}) =>
          LET old == hypotheses[ret'.id].confidence
              new == hypotheses'[ret'.id].confidence
          IN  old \in 0..Scale =>
                /\ ret'.arg.outcome = "confirmed" => new >= old
                /\ ret'.arg.outcome = "falsified" =>
                      IF old > 0 THEN new < old ELSE new = 0
      ]_vars

\* a falsified probe has been applied to a hypothesis of confidence 0
C7_Witness ==
    \E id \in DOMAIN hypotheses :
        /\ LastEvent(hypotheses[id]).event_type = "probe_falsified"
        /\ LastEvent(hypotheses[id]).old_confidence = 0
        /\ hypotheses[id].confidence = 0

C9_FirstPhaseExplore == first_phase \in {"none", "explore"}

\* C10: an infer phase of the exploration loop that starts with nothing to
\* analyze leaves the store as it is and is followed by the explore phase.
C10_EmptyInferBackToExplore ==
    [][ ( /\ loop_pc = "loop"
          /\ iteration' = iteration + 1
          /\ PhaseAt(current_phase_idx) = "infer"
          /\ loop_pending_hypotheses = <<>> ) =>
          /\ hypotheses' = hypotheses
          /\ PhaseAt(current_phase_idx') = "explore" ]_vars

\* C11: a run of the scientific loop stays within the iteration budget: no
\* phase node is dispatched once loop_iteration has reached
\* max_loop_iterations, and at most max_loop_iterations phase nodes execute,
\* whatever the agents observe, infer or fail at.
C11_IterationBudget ==
    [][ /\ (node' \in Phases => loop_iteration' < max_loop_iterations)
        /\ phase_steps' <= max_loop_iterations ]_vars

\* the budget is used up: the run has ended at the limit after dispatching a
\* phase at every iteration below it
C11_Witness ==
    /\ node = "END"
    /\ loop_iteration >= max_loop_iterations
    /\ phase_steps = max_loop_iterations - 1

\* the driver of control.py runs one phase per iteration of
\* range(max_iterations)
C11_LoopBudget ==
    /\ iteration <= max_iterations
    /\ (loop_pc = "loop" => iteration < max_iterations)

\* C12: ten counted errors end the session: once error_count has reached ten,
\* no further phase node is dispatched.
C12_TenErrorsTerminate ==
    [][ error_count' >= 10 => node' \notin Phases ]_vars

\* C13: exploration ends once fifteen consecutive explore steps have yielded
\* no new observation: after the fifteenth such step no further explore step
\* is run.
C13_StopsAfterFifteen ==
    [][ consecutive_no_new >= 15
          => ~(iteration' # iteration /\ session_phase' = "explore") ]_vars

\* C14: the update phase leaves the per-iteration buffers (new observations,
\* pending hypotheses, critic reviews, probe results) empty and leaves the
\* persistent stores unchanged.
C14_UpdateClearsBuffers ==
    [][ node = "update"
          => /\ new_observations' = <<>>
             /\ pending_hypotheses' = <<>>
             /\ critic_reviews' = <<>>
             /\ probe_results' = <<>>
             /\ UNCHANGED <<hypotheses, observations, page_states, transitions>> ]_vars

\* an update phase has run; the infer and critique phases before it had
\* filled the buffers
C14_Witness ==
    /\ node = "termination_check"
    /\ first_phase # "none"
    /\ probe_results = <<>>
    /\ loop_phase = "update"
    /\ phase_steps >= 5

\* C15: when a probe of the probe phase confirms a hypothesis of confidence c,
\* the store holds the confidence c + 0.2 * (1 - c) for it afterwards.
C15_ProbeConfirmFormula ==
    [][ \A id \in Existing :
          ( /\ iteration' # iteration
            /\ session_phase' = "probe"
            /\ hypotheses[id].status # CONFIRMED
            /\ hypotheses'[id].status = CONFIRMED )
          => hypotheses'[id].confidence
               = calc_probe_result(hypotheses[id].confidence, "confirmed") ]_vars

\* C16: a hypothesis whose status is falsified is never part of the OpenAPI
\* export, whatever its confidence.
C16_FalsifiedNotExported ==
    \A min_confidence \in MinConfidences :
        \A id \in get_openapi_spec(hypotheses, min_confidence) :
            hypotheses[id].status # FALSIFIED

\* C17: add_state returns true iff no state with that hash has been recorded
\* before; on an already-recorded hash it returns false, adds exactly one to
\* the visit count of that state and leaves its url, title, owning session,
\* first-seen time and dead-end flag, and every other state, unchanged.
C17_AddState ==
    [][ (page_states' # page_states /\ fsm_ret'.op = "add_state")
          => LET h == fsm_ret'.args[1]
             IN  /\ fsm_ret'.value = (h \notin DOMAIN page_states)
                 /\ h \in DOMAIN page_states'
                 /\ h \in DOMAIN page_states
                      => page_states' =
                           [page_states EXCEPT
                              ![h].visit_count = page_states[h].visit_count + 1] ]_vars

\* a recorded state, marked a dead end, has been re-inserted by the other
\* session under another url
C17_Witness ==
    /\ fsm_ret.op = "add_state"
    /\ fsm_ret.value = FALSE
    /\ LET h == fsm_ret.args[1]
       IN  /\ h \in DOMAIN page_states
           /\ page_states[h].visit_count = 2
           /\ page_states[h].is_dead_end
           /\ page_states[h].session_id # fsm_ret.session_id
           /\ page_states[h].url # fsm_ret.args[2].url

\* C18: in every state of an exploration run, each transition in the FSM store
\* has from and to state hashes that were in the page-state table when the
\* transition was inserted (they are in the table and were first seen before
\* the transition's timestamp).
C18_TransitionEndpointsRecorded ==
    \A i \in 1..Len(transitions) :
        /\ transitions[i].from_state_hash \in DOMAIN page_states
        /\ transitions[i].to_state_hash \in DOMAIN page_states
        /\ page_states[transitions[i].from_state_hash].first_seen
             < transitions[i].timestamp
        /\ page_states[transitions[i].to_state_hash].first_seen
             < transitions[i].timestamp

\* a click of the explore phase has led to another page and the loop has
\* written the transition
C18_Witness ==
    /\ loop_pc = "loop"
    /\ Len(transitions) >= 1
    /\ transitions[1].session_id = session_id
    /\ transitions[1].to_state_hash = current_state_hash
    /\ transitions[1].from_state_hash # current_state_hash

\* C19: a transition that names a state hash absent from the page-state table
\* is refused when it is written: the transitions table stays as it was.
C19_DanglingTransitionRefused ==
    [][ ( /\ fsm_ret'.op = "add_transition"
          /\ fsm_ret' # fsm_ret
          /\ \/ fsm_ret'.args[1] \notin DOMAIN page_states
             \/ fsm_ret'.args[2] \notin DOMAIN page_states )
          => transitions' = transitions ]_vars

\* what one session sees of the store, and what add_state would return to it
session_view(s) ==
    [ graph |-> get_fsm_graph(page_states, transitions, s),
      add_state |-> [h \in Hashes |-> add_state_result(page_states, h)] ]

\* C20: page-state records are per session: a call made by one session changes
\* neither the state graph and visit counts another session sees nor what
\* add_state returns to that other session.
C20_SessionsIsolated ==
    [][ \A s \in Sessions :
          (fsm_ret' # fsm_ret /\ fsm_ret'.op \in {"add_state", "add_transition"}
             /\ fsm_ret'.session_id # s)
          => session_view(s)' = session_view(s) ]_vars

\* a directed cycle exists among the edges E
HasCycle(E) ==
    \E n \in 1..Cardinality(StoreHashes) :
        \E f \in [1..n -> StoreHashes] :
            /\ \A i \in 1..(n - 1) : <<f[i], f[i + 1]>> \in E
            /\ <<f[n], f[1]>> \in E

SuccessfulEdges(s) ==
    { <<transitions[i].from_state_hash, transitions[i].to_state_hash>> :
        i \in { j \in 1..Len(transitions) :
                  transitions[j].session_id = s /\ transitions[j].success } }

\* C21: detect_loops considers only the successful transitions of the session:
\* it returns a cycle whenever those transitions contain a directed cycle, and
\* every cycle it returns is closed and runs along successful transitions only.
C21_DetectLoops ==
    \A s \in Sessions :
        \A cycles \in { detect_loops(transitions, s) } :
            /\ HasCycle(SuccessfulEdges(s)) => cycles # <<>>
            /\ \A i \in 1..Len(cycles) :
                  /\ Len(cycles[i]) >= 2
                  /\ cycles[i][1] = cycles[i][Len(cycles[i])]
                  /\ \A j \in 1..(Len(cycles[i]) - 1) :
                        <<cycles[i][j], cycles[i][j + 1]>> \in SuccessfulEdges(s)

\* two successful transitions of a session form a cycle between two states,
\* and detect_loops returns it
C21_Witness ==
    \E s \in Sessions :
        /\ HasCycle(SuccessfulEdges(s))
        /\ detect_loops(transitions, s) # <<>>
        /\ Len(detect_loops(transitions, s)[1]) = 3

\* C22: every observation carries the interaction id of the UI action that
\* was in progress when its request was issued, whatever the interleaving of
\* interception, response arrival and the start of later actions.
C22_TaggedWithIssuingAction ==
    \A i \in 1..Len(manager_observations) :
        manager_observations[i].interaction_id = routes[manager_observations[i].id].issued_during

\* C23: any two requests released by _enforce_rate_limit are at least
\* min_request_interval apart, also when several requests are intercepted
\* concurrently.
C23_ReleasesSpaced ==
    \A q1 \in Requests, q2 \in Requests :
        (q1 # q2 /\ routes[q1].released # NoTime /\ routes[q2].released # NoTime)
            => \/ routes[q1].released - routes[q2].released >= min_request_interval
               \/ routes[q2].released - routes[q1].released >= min_request_interval

\* C24: for calls of check_rate_limit with non-decreasing timestamps, no more
\* than max_requests_per_minute calls are admitted within any span of 60
\* seconds.
C24_AtMostMaxPerMinute ==
    \A i \in 1..Len(admitted) :
        Cardinality({ k \in i..Len(admitted) : admitted[k] - admitted[i] < 60 }) <= max_requests_per_minute

\* C25: every UI action executed by the exploration loop has first been
\* submitted to validate_action.
C25_ValidatedBeforeExecuted ==
    \A a \in executed : [action_type |-> a.action_type, target |-> a.target] \in validated

\* C26: no explore step clicks an element whose accessible text contains a
\* logout or sign-out token, on the overlay path or on the direct link path.
C26_NoLogoutClick ==
    \A a \in executed :
        a.action_type = "click" => \A e \in PageElements : e.id = a.target => e.text.token \notin LogoutTokens

\* C27: a probe whose hypothesis is not among the pending ones, or whose
\* HTTP request fails with a network error, yields exactly one result, with
\* outcome inconclusive, and the probes after it are still executed: the
\* run returns one result per probe, in order.
C27_FailedProbeInconclusive ==
    verifier_run.executed =>
        /\ Len(verifier_run.results) = Min(Len(verifier_run.probes), max_requests_per_run)
        /\ \A i \in 1..Len(verifier_run.results) :
              /\ verifier_run.results[i].hypothesis_id = verifier_run.probes[i].hypothesis_id
              /\ verifier_run.results[i].probe_type = verifier_run.probes[i].probe_type
              /\ (verifier_run.probes[i].hypothesis_id \notin PendingIds \/ verifier_run.net[i].kind = "RequestError")
                    => verifier_run.results[i].outcome = "inconclusive"

\* a run whose first probe has no hypothesis and whose second probe is sent
\* and answered
C27_Witness ==
    /\ verifier_run.executed
    /\ Len(verifier_run.probes) = 2
    /\ verifier_run.probes[1].hypothesis_id \notin PendingIds
    /\ verifier_run.results[1].outcome = "inconclusive"
    /\ 2 \in DOMAIN verifier_run.requests
    /\ verifier_run.results[2].outcome = "confirmed"

\* C28: the request sent for an auth_variation probe carries neither an
\* Authorization header nor any cookie of the Verifier's auth state.
C28_AuthVariationCarriesNoAuth ==
    \A i \in DOMAIN verifier_run.requests :
        verifier_run.requests[i].probe_type = "auth_variation"
            => /\ \A k \in verifier_run.requests[i].headers : lower(k) # "authorization"
               /\ verifier_run.requests[i].cookies = {}

\* C29: every Critic review whose verdict is not accept, for a hypothesis of
\* kind schema, rule/state or permission, carries a non-empty list of
\* required probes, whichever path produced the review.
C29_ChallengeHasProbes ==
    \A i \in 1..Len(critic_reviews) :
        \A j \in 1..Len(pending_hypotheses) :
            ( /\ pending_hypotheses[j].id = critic_reviews[i].hypothesis_id
              /\ pending_hypotheses[j].type \in {"endpoint_schema", "business_rule", "state_transition", "permission_gate"}
              /\ critic_reviews[i].verdict # "accept" )
                => critic_reviews[i].required_probes # <<>>

\* C30: once a cancellation requested through stop_exploration has been
\* delivered, wherever the task was suspended, the loop starts no further
\* phase.
C30_NoPhaseAfterCancel ==
    [][cancel_delivered => task_iteration' = task_iteration]_vars

\* C31: a language-model invocation failure never increments the error
\* counter: no step that changes error_count is one in which the language
\* model raised.
C31_LlmFailureNotCounted ==
    [][error_count' # error_count => ~(node = "explore" /\ last_error' = "llm")]_vars

\* C32: the pattern is a fixed point: classifying the pattern returned for a
\* URL, in the state the clusterer is in, gives that pattern again.
C32_PatternFixedPoint ==
    classify(segment_stats, cluster_ret.pattern, 1).pattern = cluster_ret.pattern


\* C33: an infer phase leaves, for every pending observation, an
\* endpoint_schema hypothesis with that observation's method and URL pattern
C33_HypothesisPerMethodAndPattern ==
    [][(loop_pending_hypotheses # <<>> /\ loop_pending_hypotheses' = <<>>) =>
          \A i \in 1..Len(loop_pending_hypotheses) :
              \E id \in DOMAIN hypotheses' :
                  /\ hypotheses'[id].type = "endpoint_schema"
                  /\ hypotheses'[id].endpoint_pattern = url_to_pattern(loop_pending_hypotheses[i].url)
                  /\ hypotheses'[id].method = loop_pending_hypotheses[i].method]_vars

\* C35: no two endpoint_schema hypotheses of the store have the same
\* endpoint pattern and method
C35_NoDuplicateEndpoint ==
    \A id1, id2 \in DOMAIN hypotheses :
        (/\ id1 # id2
         /\ hypotheses[id1].type = "endpoint_schema"
         /\ hypotheses[id2].type = "endpoint_schema"
         /\ hypotheses[id1].endpoint_pattern = hypotheses[id2].endpoint_pattern)
        => hypotheses[id1].method # hypotheses[id2].method
C35_Witness ==
    /\ loop_pending_hypotheses = <<>>
    /\ \E id1, id2 \in DOMAIN hypotheses :
          /\ id1 # id2
          /\ hypotheses[id1].type = "endpoint_schema"
          /\ hypotheses[id2].type = "endpoint_schema"
          /\ hypotheses[id1].endpoint_pattern = hypotheses[id2].endpoint_pattern
          /\ hypotheses[id1].method # hypotheses[id2].method

\* JSON Schema validation of a value: anyOf, type (with nullable), items,
\* properties and required; format is an annotation
type_matches(type, value) ==
    CASE type = "null" -> value.kind = "null"
      [] type = "boolean" -> value.kind = "bool"
      [] type = "integer" -> value.kind = "int"
      [] type = "number" -> value.kind \in {"int", "float"}
      [] type = "string" -> value.kind = "str"
      [] type = "array" -> value.kind = "list"
      [] type = "object" -> value.kind = "dict"
      [] OTHER -> FALSE
RECURSIVE validates(_, _)
validates(schema, value) ==
    /\ "anyOf" \in DOMAIN schema =>
          \E i \in 1..Len(schema.anyOf) : validates(schema.anyOf[i], value)
    /\ "type" \in DOMAIN schema =>
          \/ type_matches(schema.type, value)
          \/ get(schema, "nullable", FALSE) /\ value.kind = "null"
    /\ ("items" \in DOMAIN schema /\ value.kind = "list") =>
          \A i \in 1..Len(value.items) : validates(schema.items, value.items[i])
    /\ ("properties" \in DOMAIN schema /\ value.kind = "dict") =>
          \A key \in DOMAIN schema.properties \cap DOMAIN value.fields :
              validates(schema.properties[key], value.fields[key])
    /\ ("required" \in DOMAIN schema /\ value.kind = "dict") =>
          schema.required \subseteq DOMAIN value.fields

\* C34: the schema merged from the schemas inferred from two JSON values
\* validates both values
C34_MergedValidatesBoth ==
    Len(merged_data) = 2 =>
        /\ validates(schemas.schema, merged_data[1])
        /\ validates(schemas.schema, merged_data[2])

\* C36: every hypothesis's confidence, and every confidence its history
\* records, lies in [0,1]
C36_ConfidenceInUnitInterval ==
    \A id \in DOMAIN hypotheses :
        /\ 0 <= hypotheses[id].confidence /\ hypotheses[id].confidence <= Scale
        /\ \A k \in 1..Len(History(hypotheses[id])) :
              /\ 0 <= History(hypotheses[id])[k].new_confidence
              /\ History(hypotheses[id])[k].new_confidence <= Scale
\* a hypothesis created by the initial-confidence rule has received evidence,
\* a critic review and a probe result
C36_Witness ==
    \E id \in DOMAIN hypotheses :
        LET H == History(hypotheses[id])
            types == { H[k].event_type : k \in 1..Len(H) }
        IN  /\ H[1].new_confidence = initial_confidence(1, 0, 0)
            /\ "evidence_added" \in types
            /\ "critic_challenge" \in types
            /\ types \cap {"probe_confirmed", "probe_falsified", "probe_inconclusive"} # {}

\* the observations of the lists in seq, in order
RECURSIVE flatten(_)
flatten(seq) == IF seq = <<>> THEN <<>> ELSE Head(seq) \o flatten(Tail(seq))
Delivered == flatten(drained) \o manager_observations

\* C37: the observations returned so far followed by the buffered ones are
\* the captured observations in capture order: a step leaves that sequence
\* alone or appends one new observation to it, so none is dropped, repeated
\* or reordered by a drain
C37_DrainsLoseNothing ==
    [][\/ Delivered' = Delivered
       \/ /\ Len(Delivered') = Len(Delivered) + 1
          /\ SubSeq(Delivered', 1, Len(Delivered)) = Delivered
          /\ \A i \in 1..Len(Delivered) : Delivered[i] # Delivered'[Len(Delivered')]]_vars
\* two calls returned observations and a later capture is buffered
C37_Witness ==
    /\ Len(drained) = 2
    /\ drained[1] # <<>>
    /\ drained[2] # <<>>
    /\ manager_observations # <<>>

\* the tasks of session s whose loop is executing
Executing(s) == { t \in DOMAIN tasks : tasks[t].session = s /\ tasks[t].pc \in {"running", "cleanup", "stopping"} }

\* C38: at most one exploration loop of a session is executing, and it is
\* the task running_tasks holds for the session
C38_OneLoopPerSession ==
    \A s \in LoopSessions :
        /\ Cardinality(Executing(s)) <= 1
        /\ \A t \in Executing(s) : running_tasks[s] = t
\* a second loop of a session runs after its first one was stopped, while a
\* start request for the session is pending
C38_Witness ==
    \E s \in LoopSessions, t1, t2 \in DOMAIN tasks :
        /\ t1 < t2
        /\ tasks[t1].session = s /\ tasks[t1].pc = "done"
        /\ tasks[t2].session = s /\ tasks[t2].pc = "running"
        /\ start_waiting[s] > 0

\* C39: when the loop of one session runs its cleanup while the loop of
\* another session is running, the FSM store is still open for that loop
C39_CleanupLeavesStoreOpen ==
    [][\A a, b \in DOMAIN tasks :
          (/\ tasks[a].pc = "cleanup" /\ tasks'[a].pc = "stopping"
           /\ tasks[b].session # tasks[a].session
           /\ tasks[b].pc = "running")
          => fsm_db' = "open"]_vars
====
